---- MODULE Spec2Model ----
(***************************************************************************)
(* State-machine model of nifti_viewer.py: the NiftiViewer main window,    *)
(* its VolumeWidget (primary 3D surface plus the fullscreen mirror) and    *)
(* the event handlers that mutate window-level, slice and overlay state.   *)
(*                                                                         *)
(* Numbers.  Intensities are integers.  clim_min / clim_max are kept in    *)
(* thousandths of an intensity unit, so that                               *)
(*     data_min + (pct / 1000.0) * data_range                              *)
(* is the exact integer  1000 * data_min + pct * data_range,  and          *)
(*     0.01 * data_range   is   10 * data_range.                           *)
(* seg_opacity and bg_color are kept in hundredths (the slider value).     *)
(* Spacing is kept in tenths of a millimetre.  Arithmetic is exact (the    *)
(* float rounding of the interpreter is not modelled).                     *)
(*                                                                         *)
(* Arrays are abstracted to what the handlers read from them: the shape,   *)
(* min(), max(), and max() of the stride-2 decimation  a[::2, ::2, ::2].   *)
(***************************************************************************)
EXTENDS Integers, Sequences, FiniteSets, TLC

VARIABLES
    viewer,      \* NiftiViewer: store, controls of the primary panel, slice state;
                 \* patient_list holds directory paths, DirContents what their files load to
    vw,          \* VolumeWidget: render parameters, fullscreen controls
    plotter,     \* scene of the primary 3D surface (VolumeWidget.plotter)
    fs_plotter,  \* scene of the fullscreen surface, or None
    ev,          \* name of the handler that ran last
    args,        \* the pixel a canvas click was made at, <<>> for other events
    presses,     \* times (ms) of the left-button presses on the primary 3D surface so far
    budget       \* number of events still explored; Unlimited for no limit

vars == <<viewer, vw, plotter, fs_plotter, ev, args, presses, budget>>

\* Optional values: None is the empty tuple, a present value x is <<x>>
None == <<>>
Some(x) == <<x>>
Val(o) == o[1]

\* NiftiViewer.current_modality is None before the first load
NoModality == ""

----------------------------------------------------------------------------
(* Program constants                                                        *)

PYVISTA_AVAILABLE == TRUE

PERFORMANCE_THRESHOLD == 10000000

MODALITY_ORDER == <<"bravo", "seg", "t1_gd", "t1_pre", "flair">>

WINDOW_PRESETS ==
    [p \in {"Full Range", "Brain", "Soft Tissue", "Bone", "Tumor"} |->
        CASE p = "Full Range"  -> <<0, 100>>
          [] p = "Brain"       -> <<0, 40>>
          [] p = "Soft Tissue" -> <<10, 50>>
          [] p = "Bone"        -> <<50, 100>>
          [] p = "Tumor"       -> <<5, 30>>]

COLORMAPS == <<"gray", "bone", "hot", "viridis", "magma", "plasma">>

OPACITY_PRESETS ==
    [p \in {"soft", "medium", "strong"} |->
        CASE p = "soft"   -> "sigmoid"
          [] p = "medium" -> "linear"
          [] p = "strong" -> "geom"]

\* seconds for double-click detection, in milliseconds
DOUBLE_CLICK_TIMEOUT == 300

\* range of the contrast sliders (setRange(0, 1000)) and of the
\* seg-opacity / background sliders (setRange(0, 100))
CLIM_SLIDER_MAX == 1000
PCT_SLIDER_MAX == 100

----------------------------------------------------------------------------
(* Bounded inputs: the patient directories the user can browse             *)

Arr(shape, lo, hi, hi2) == [shape |-> shape, min |-> lo, max |-> hi, max2 |-> hi2]
Mod(data, spacing) == [data |-> data, spacing |-> spacing]

\* the contrast-slider positions the user drags to
PctInputs == {0, 500, 1000}

\* the window presets the user selects
PresetInputs == {"Full Range", "Bone"}

Patient1 ==
    ("bravo" :> Mod(Arr(<<256, 256, 256>>, 0, 10, 10), <<10, 10, 10>>)) @@
    ("seg"   :> Mod(Arr(<<256, 256, 256>>, 0, 1, 1),   <<10, 10, 10>>)) @@
    ("flair" :> Mod(Arr(<<64, 64, 64>>, -5, 15, 15),   <<10, 10, 20>>))

Patient2 ==
    ("bravo" :> Mod(Arr(<<200, 250, 200>>, 5, 5, 5),   <<10, 10, 10>>)) @@
    ("seg"   :> Mod(Arr(<<200, 250, 200>>, 0, 0, 0),   <<10, 10, 10>>)) @@
    ("t1_gd" :> Mod(Arr(<<257, 215, 181>>, 0, 20, 20), <<5, 5, 12>>))

\* a directory whose files all fail to load
EmptyDict == [m \in {} |-> None]
Patient3 == EmptyDict

\* the cohort folder: its patient directories in sorted order
PatientDirs == <<"p1", "p2", "p3">>

\* a folder holding one patient directory "v" with a bravo volume of the
\* given shape and spacing and a segmentation of the same geometry
DimInputs == {64, 200, 250, 256, 257}
SpacingInputs == {<<10, 10, 10>>, <<5, 7, 12>>}
VolumeDir(shape, spacing) ==
    ("bravo" :> Mod(Arr(shape, 0, 10, 10), spacing)) @@
    ("seg"   :> Mod(Arr(shape, 0, 1, 1),   spacing))

\* a folder holding one patient directory "s": a bravo volume above the
\* subsampling threshold and a segmentation of the same geometry whose
\* labelled voxels all have an odd index on some axis, so that [::2] drops
\* every one of them
SparseDir ==
    ("bravo" :> Mod(Arr(<<256, 256, 256>>, 0, 10, 10), <<10, 10, 10>>)) @@
    ("seg"   :> Mod(Arr(<<256, 256, 256>>, 0, 1, 0),   <<10, 10, 10>>))
SparsePath == <<"s">>

\* a patient directory is a path: its name and, for "v", what it was made of
CohortPath(i) == <<PatientDirs[i]>>
VolumePath(shape, spacing) == <<"v", shape, spacing>>
PatientName(path) == path[1]

\* nib.load over the files of a patient directory
DirContents(path) ==
    CASE PatientName(path) = "p1" -> Patient1
      [] PatientName(path) = "p2" -> Patient2
      [] PatientName(path) = "p3" -> Patient3
      [] PatientName(path) = "s"  -> SparseDir
      [] OTHER -> VolumeDir(path[2], path[3])

----------------------------------------------------------------------------
(* Helpers for Python / Qt primitives                                       *)

Min2(a, b) == IF a <= b THEN a ELSE b
Max2(a, b) == IF a >= b THEN a ELSE b

\* QSlider.setValue: the value is bounded to [0, maximum]
QSliderValue(v, maximum) == Max2(0, Min2(v, maximum))

\* int(a / b) for b > 0: truncation toward zero
IntDiv(a, b) == IF a >= 0 THEN a \div b ELSE -((-a) \div b)

\* Coordinates of the 2D plots (axes limits, cursor positions) are exact
\* fractions <<numerator, denominator>> in lowest terms, denominator > 0
Abs(a) == IF a >= 0 THEN a ELSE -a

RECURSIVE GCD(_, _)
GCD(a, b) == IF b = 0 THEN a ELSE GCD(b, a % b)

Frac(n, d) ==
    LET g == GCD(Abs(n), Abs(d))
        sgn == IF d < 0 THEN -1 ELSE 1
    IN  <<sgn * (n \div g), sgn * (d \div g)>>

FracInt(n) == <<n, 1>>

FracAdd(a, b) ==
    LET g == GCD(a[2], b[2])
    IN  Frac(a[1] * (b[2] \div g) + b[1] * (a[2] \div g), a[2] * (b[2] \div g))

FracNeg(a) == <<-a[1], a[2]>>

FracSub(a, b) == FracAdd(a, FracNeg(b))

FracMul(a, b) ==
    LET g1 == GCD(Abs(a[1]), b[2])
        g2 == GCD(Abs(b[1]), a[2])
    IN  Frac((a[1] \div g1) * (b[1] \div g2), (a[2] \div g2) * (b[2] \div g1))

\* a / b for b # 0
FracDiv(a, b) == FracMul(a, IF b[1] > 0 THEN <<b[2], b[1]>> ELSE <<-b[2], -b[1]>>)

FracLeq(a, b) == FracSub(b, a)[1] >= 0

\* int(round(x)): Python rounds a tie to the even neighbour
IntRound(a) ==
    LET fl  == a[1] \div a[2]
        rem == a[1] % a[2]
    IN  IF 2 * rem < a[2] THEN fl
        ELSE IF 2 * rem > a[2] THEN fl + 1
        ELSE IF fl % 2 = 0 THEN fl ELSE fl + 1

\* 'seg' in modality.lower()   (the modality names used are lower case)
IsSegName(m) == m \in {"seg"}

\* data_min + (pct / 1000.0) * data_range, in thousandths
PctToClim(data_min, data_max, pct) == 1000 * data_min + pct * (data_max - data_min)

\* The contrast percentages p in 0..1000 for which the double
\* ((data_min + (p / 1000.0) * r) - data_min) / r * 1000 lies just below p,
\* so that int() gives p - 1, for the data ranges [0, 10] and [0, 20]
\* (the same set: the doubles of the two ranges differ by a factor of two)
\* and for the data range [-5, 15]
TruncatedBelow_0_10 ==
    {235, 239, 243, 247, 401, 407, 411, 415, 419, 423, 427, 431, 435, 439,
     443, 447, 451, 455, 459, 463, 467, 470, 478, 486, 494, 801, 802, 809,
     814, 815, 822, 830, 831, 838, 846, 847, 854, 862, 863, 870, 878, 879,
     886, 894, 895, 902, 910, 911, 918, 926, 927, 934, 939, 940, 947, 955,
     956, 963, 971, 972, 979, 987, 988, 995}

TruncatedBelow_m5_15 ==
    {1, 3, 5, 7, 9, 11, 13, 15, 17, 19, 21, 22, 26, 30, 32, 34, 36, 38, 40,
     42, 43, 47, 59, 61, 63, 65, 67, 69, 235, 239, 243, 247, 401, 407, 411,
     415, 419, 423, 427, 431, 435, 439, 443, 447, 451, 455, 459, 463, 467,
     470, 478, 486, 494, 801, 802, 809, 814, 815, 822, 830, 831, 838, 846,
     847, 854, 862, 863, 870, 878, 879, 886, 894, 895, 902, 910, 911, 918,
     926, 927, 934, 939, 940, 947, 955, 956, 963, 971, 972, 979, 987, 988,
     995}

\* The contrast percentages p in 0..1000 for which the widened upper bound
\* hi = (data_min + (p / 1000.0) * r) + 0.01 * r converts back to p + 9:
\* the double (hi - data_min) / r * 1000 lies just below p + 10
WidenedBelow_0_10 ==
    {11, 22, 23, 24, 25, 43, 44, 45, 46, 47, 48, 59, 60, 71, 72, 73, 74,
     75, 86, 87, 88, 89, 90, 235, 239, 391, 392, 395, 401, 407, 409, 410,
     411, 413, 414, 415, 417, 418, 419, 421, 422, 423, 425, 426, 427, 429,
     430, 431, 433, 434, 435, 437, 438, 439, 441, 442, 443, 445, 446, 447,
     449, 450, 451, 453, 454, 455, 457, 469, 470, 472, 473, 476, 477, 478,
     480, 481, 484, 485, 486, 488, 489, 493, 494, 497, 501, 502, 505, 509,
     510, 513, 517, 518, 521, 525, 526, 529, 533, 534, 537, 541, 542, 545,
     549, 550, 563, 566, 570, 571, 574, 578, 579, 582, 586, 587, 590, 594,
     595, 598, 602, 603, 606, 610, 611, 614, 618, 619, 622, 626, 627, 630,
     634, 635, 638, 642, 643, 646, 650, 651, 654, 658, 659, 662, 666, 667,
     670, 674, 675, 688, 691, 695, 696, 699, 703, 704, 707, 711, 712, 715,
     719, 720, 723, 727, 728, 731, 735, 736, 739, 743, 744, 747, 751, 752,
     755, 759, 760, 763, 767, 768, 771, 775, 776, 779, 783, 784, 787, 791,
     792, 799, 800, 813, 814, 815, 820, 821, 822, 828, 829, 830, 831, 836,
     837, 838, 844, 845, 846, 847, 852, 853, 854, 860, 861, 862, 863, 868,
     869, 870, 876, 877, 878, 879, 884, 885, 886, 892, 893, 894, 895, 900,
     901, 902, 908, 909, 910, 911, 916, 917, 918, 924, 925, 938, 939, 940,
     945, 946, 947, 953, 954, 955, 956, 961, 962, 963, 969, 970, 971, 972,
     977, 978, 979, 985, 986, 987, 988, 991, 993, 995, 999}

WidenedBelow_m5_15 ==
    {1, 3, 5, 7, 9, 11, 22, 26, 30, 32, 43, 47, 59, 141, 143, 145, 147,
     149, 151, 153, 155, 157, 159, 161, 235, 239, 391, 392, 401, 409, 410,
     411, 417, 418, 419, 425, 426, 427, 433, 434, 435, 441, 442, 443, 449,
     450, 451, 457, 469, 470, 476, 477, 478, 484, 485, 486, 493, 494, 501,
     502, 509, 510, 517, 518, 525, 526, 533, 534, 541, 542, 549, 550, 563,
     570, 571, 578, 579, 586, 587, 594, 595, 602, 603, 610, 611, 618, 619,
     626, 627, 634, 635, 642, 643, 646, 650, 651, 654, 658, 659, 662, 666,
     667, 670, 674, 675, 688, 691, 695, 696, 699, 703, 704, 707, 711, 712,
     715, 719, 720, 723, 727, 728, 731, 735, 736, 739, 743, 744, 747, 751,
     752, 755, 759, 760, 763, 767, 768, 771, 775, 776, 779, 783, 784, 787,
     791, 792, 794, 799, 800, 813, 814, 815, 820, 821, 822, 828, 829, 830,
     831, 836, 837, 838, 844, 845, 846, 847, 852, 853, 854, 860, 861, 862,
     863, 868, 869, 870, 876, 877, 878, 879, 884, 885, 886, 892, 893, 894,
     895, 900, 901, 902, 908, 909, 910, 911, 916, 917, 918, 924, 925, 938,
     939, 940, 945, 946, 947, 953, 954, 955, 956, 961, 962, 963, 969, 970,
     971, 972, 977, 978, 979, 985, 986, 987, 988, 991, 993, 995, 999}

WidenedBelow_0_1 ==
    {11, 18, 19, 59, 60, 71, 72, 73, 74, 75, 86, 87, 88, 89, 90, 91, 102,
     103, 104, 105, 106, 991, 993, 995, 997, 999}

\* the data ranges of the volumes: doubles are tabulated per range
TruncatedBelow(data_min, data_max) ==
    CASE <<data_min, data_max>> \in {<<0, 10>>, <<0, 20>>} -> TruncatedBelow_0_10
      [] <<data_min, data_max>> = <<-5, 15>> -> TruncatedBelow_m5_15
      [] <<data_min, data_max>> = <<0, 1>> -> {}

WidenedBelow(data_min, data_max) ==
    CASE <<data_min, data_max>> \in {<<0, 10>>, <<0, 20>>} -> WidenedBelow_0_10
      [] <<data_min, data_max>> = <<-5, 15>> -> WidenedBelow_m5_15
      [] <<data_min, data_max>> = <<0, 1>> -> WidenedBelow_0_1

\* int((clim - data_min) / (data_max - data_min) * 1000) for a clim that was
\* computed from a percentage (widened: by adding 0.01 * data_range to the
\* lower bound), as the double-precision arithmetic evaluates it
ClimToPct(clim, data_min, data_max, widened) ==
    LET exact == IntDiv(clim - 1000 * data_min, data_max - data_min)
    IN  CASE widened /\ PctToClim(data_min, data_max, exact) = clim
                     /\ exact - 10 \in 0..1000 ->
                IF exact - 10 \in WidenedBelow(data_min, data_max)
                THEN exact - 1 ELSE exact
          [] ~widened /\ PctToClim(data_min, data_max, exact) = clim
                      /\ exact \in 0..1000 ->
                IF exact \in TruncatedBelow(data_min, data_max)
                THEN exact - 1 ELSE exact

\* the hundredths v for which the double (v / 100.0) * 100 lies just below v
LossyHundredths == {29, 57, 58}

\* int(x * 100) for x = v / 100.0
IntHundredths(v) == IF v \in LossyHundredths THEN v - 1 ELSE v

\* position of a name in MODALITY_ORDER, 999 for the others
OrderKey(m) ==
    IF \E i \in 1..Len(MODALITY_ORDER) : MODALITY_ORDER[i] = m
    THEN (CHOOSE i \in 1..Len(MODALITY_ORDER) : MODALITY_ORDER[i] = m) - 1
    ELSE 999

RECURSIVE SortedModalities(_)
SortedModalities(S) ==
    IF S = {} THEN <<>>
    ELSE LET m == CHOOSE x \in S : \A y \in S : OrderKey(x) <= OrderKey(y)
         IN  <<m>> \o SortedModalities(S \ {m})

SeqToSet(s) == {s[i] : i \in 1..Len(s)}

----------------------------------------------------------------------------
(* Initial state: NiftiViewer.__init__ / _setup_ui, VolumeWidget.__init__   *)

Slider(value, maximum) == [value |-> value, maximum |-> maximum]

\* SliceCanvas.__init__; the axes of a new figure span (0, 1) on both axes
SliceCanvasInit ==
    [ image_data   |-> None,
      overlay_data |-> None,
      show_overlay |-> FALSE,
      crosshair_h  |-> None,
      crosshair_v  |-> None,
      axis         |-> 0,
      _xlim        |-> None,
      _ylim        |-> None,
      _pan_start   |-> None,
      _pan_xlim    |-> None,
      _pan_ylim    |-> None,
      \* what the axes show: the slice drawn by the last update_slice (index,
      \* extent in pixels, whether the masked overlay was drawn) and the limits
      shown        |-> None,
      ax_xlim      |-> <<<<0, 1>>, <<1, 1>>>>,
      ax_ylim      |-> <<<<0, 1>>, <<1, 1>>>> ]

ViewerInit ==
    [ modalities          |-> EmptyDict,
      current_modality    |-> NoModality,
      patient_list        |-> <<>>,
      current_patient_idx |-> 0,
      slice_indices       |-> <<0, 0, 0>>,       \* sagittal, coronal, axial
      max_slices          |-> <<1, 1, 1>>,
      slice_slider        |-> <<Slider(0, 99), Slider(0, 99), Slider(0, 99)>>,
      path_label          |-> <<"No patient loaded">>,
      modality_combo      |-> [items |-> <<>>, text |-> ""],
      clim_min_slider     |-> 0,
      clim_max_slider     |-> 1000,
      window_preset_combo |-> "Full Range",
      colormap_combo      |-> "gray",
      opacity_combo       |-> "medium",
      shade_checkbox      |-> FALSE,
      seg_opacity_slider  |-> 0,
      seg_always_visible_checkbox |-> FALSE,
      bg_slider           |-> 0,
      overlay_enabled     |-> TRUE,
      \* sagittal_canvas, coronal_canvas, axial_canvas
      canvas              |-> [i \in 1..3 |-> SliceCanvasInit] ]

VolumeWidgetInit ==
    [ current_data        |-> None,
      current_seg_overlay |-> None,
      is_segmentation     |-> FALSE,
      clim_min            |-> 0,
      clim_max            |-> 1000,
      clim_widened        |-> FALSE,     \* clim_max is clim_min + 0.01 * data_range
      data_min            |-> 0,
      data_max            |-> 1,
      colormap            |-> "gray",
      opacity_preset      |-> "medium",
      shade_enabled       |-> FALSE,
      seg_opacity         |-> 0,
      seg_always_visible  |-> FALSE,
      bg_color            |-> 0,
      overlay_renderer    |-> FALSE,     \* TRUE iff self.overlay_renderer is not None
      current_spacing     |-> <<10, 10, 10>>,
      is_fullscreen       |-> FALSE,
      fullscreen_window   |-> FALSE,     \* TRUE iff self.fullscreen_window is not None
      _click_count        |-> 0,
      _last_click_time    |-> 0,         \* milliseconds
      modalities_list     |-> <<>>,
      current_modality_name |-> "",
      callbacks           |-> FALSE,     \* modality / navigation / exit callbacks are set
      patient_label_text  |-> <<>>,
      fs_patient_label    |-> None,
      fs_modality_combo   |-> None,
      fs_clim_min_slider  |-> None,
      fs_clim_max_slider  |-> None,
      fs_preset_combo     |-> None,
      fs_cmap_combo       |-> None,
      fs_opacity_combo    |-> None,
      fs_shade_checkbox   |-> None,
      fs_seg_opacity_slider |-> None,
      fs_seg_always_visible_checkbox |-> None,
      fs_bg_slider        |-> None ]

\* a QtInteractor right after construction with the given background
NewPlotter(bg) ==
    [ volume        |-> None,    \* the add_volume actor: clim, cmap, opacity, text colour
      mesh          |-> None,    \* the add_mesh actor: the 0.5 isosurface and its opacity
      light         |-> FALSE,
      extra         |-> 0,       \* number of renderers with layer > 0 in the render window
      extra_opacity |-> None,    \* opacity of the actor of the last extra renderer
      dims          |-> None,    \* grid.dimensions
      spacing       |-> None,    \* grid.spacing
      seg_grid      |-> None,    \* seg_grid.dimensions and seg_grid.spacing
      background    |-> bg,
      camera        |-> [view |-> "default", fit |-> None] ]

\* the state after construction of the main window
Constructed ==
    /\ viewer = ViewerInit
    /\ vw = VolumeWidgetInit
    /\ plotter = NewPlotter(0)
    /\ fs_plotter = None
    /\ ev = "init"
    /\ args = <<>>
    /\ presses = <<>>

\* length of the explored event sequences
MaxSteps == 4
Unlimited == -1

Init == Constructed /\ budget = MaxSteps
InitUnlimited == Constructed /\ budget = Unlimited

\* the state as one value, so that handlers compose as functions
St == [viewer |-> viewer, vw |-> vw, plotter |-> plotter, fs_plotter |-> fs_plotter]

CommitArgs(s, name, a) ==
    /\ viewer' = s.viewer
    /\ vw' = s.vw
    /\ plotter' = s.plotter
    /\ fs_plotter' = s.fs_plotter
    /\ ev' = name
    /\ args' = a
    /\ presses' = IF name = "on_left_button_press" THEN Append(presses, a[1]) ELSE presses
    /\ budget # 0
    /\ budget' = IF budget > 0 THEN budget - 1 ELSE budget

Commit(s, name) == CommitArgs(s, name, <<>>)

----------------------------------------------------------------------------
(* VolumeWidget: scene construction                                         *)

Size(shape) == shape[1] * shape[2] * shape[3]

Step_inclusive(data) == IF Size(data.shape) >= PERFORMANCE_THRESHOLD THEN 2 ELSE 1

\* step = 2 if data.size > PERFORMANCE_THRESHOLD else 1
Step(data) == IF Size(data.shape) > PERFORMANCE_THRESHOLD THEN 2 ELSE 1

StridedLen_floor(n, step) == n \div step

\* len(range(0, n, step)): the length of a[::step]
StridedLen(n, step) == (n + step - 1) \div step

\* variant: decimation keeps the maximum of the whole array
Decimate_dense(a, step) ==
    IF a = None \/ step = 1 THEN a
    ELSE Some([Val(a) EXCEPT
                 !.shape = <<StridedLen(@[1], step), StridedLen(@[2], step),
                             StridedLen(@[3], step)>>])

\* a[::step, ::step, ::step] of an optional array
Decimate(a, step) ==
    IF a = None \/ step = 1 THEN a
    ELSE Some([Val(a) EXCEPT
                 !.shape = <<StridedLen(@[1], step), StridedLen(@[2], step),
                             StridedLen(@[3], step)>>,
                 !.max = Val(a).max2])

\* the subsampling block of _render / _render_to_plotter: the decimated
\* volume and overlay and the spacing of the grid built from them
Subsample(data, seg_overlay, spacing) ==
    LET step == Step(Val(data))
    IN  [ step        |-> step,
          data        |-> Val(Decimate(data, step)),
          seg_overlay |-> Decimate(seg_overlay, step),
          spacing     |-> <<spacing[1] * step, spacing[2] * step, spacing[3] * step>> ]

AlwaysVisibleOpacity_unfloored(seg_opacity) ==
    IF seg_opacity > 0 THEN seg_opacity ELSE 80

\* max(0.1, self.seg_opacity) if self.seg_opacity > 0 else 0.8, in hundredths
AlwaysVisibleOpacity(seg_opacity) ==
    IF seg_opacity > 0 THEN Max2(10, seg_opacity) ELSE 80

\* the actors both render methods add to a cleared scene
SceneActors(v, sub, font_size) ==
    IF v.is_segmentation
    THEN [ volume |-> None,
           light  |-> FALSE,
           mesh   |-> IF sub.data.max > 0
                      THEN Some([source |-> "data", opacity |-> 70]) ELSE None,
           pass   |-> FALSE,
           pass_opacity |-> None,
           seg_grid |-> None ]
    ELSE LET overlay == sub.seg_overlay # None /\ Val(sub.seg_overlay).max > 0
         IN  [ volume |-> Some([ clim       |-> <<v.clim_min, v.clim_max>>,
                                 cmap       |-> v.colormap,
                                 opacity    |-> IF v.opacity_preset \in DOMAIN OPACITY_PRESETS
                                                THEN OPACITY_PRESETS[v.opacity_preset]
                                                ELSE "linear",
                                 shade      |-> v.shade_enabled,
                                 text_color |-> IF v.bg_color > 50 THEN "black" ELSE "white",
                                 font_size  |-> font_size ]),
               light  |-> v.shade_enabled,
               mesh   |-> IF overlay /\ ~v.seg_always_visible
                          THEN Some([source |-> "seg_overlay", opacity |-> v.seg_opacity])
                          ELSE None,
               pass   |-> overlay /\ v.seg_always_visible,
               pass_opacity |-> IF overlay /\ v.seg_always_visible
                                THEN Some(AlwaysVisibleOpacity(v.seg_opacity))
                                ELSE None,
               seg_grid |-> IF overlay
                            THEN Some(<<Val(sub.seg_overlay).shape, sub.spacing>>)
                            ELSE None ]

\* plotter.reset_camera(): fit the camera to the grid, keep its direction
FitCamera(camera, sub) ==
    [camera EXCEPT !.fit = Some(<<sub.data.shape, sub.spacing>>)]

\* the scene after the actors were added to plotter p (extra0 extra
\* renderers are left attached at that point)
WithActors(p, act, sub, extra0) ==
    [p EXCEPT !.volume = act.volume,
              !.mesh = act.mesh,
              !.light = act.light,
              !.dims = Some(sub.data.shape),
              !.spacing = Some(sub.spacing),
              !.seg_grid = act.seg_grid,
              !.extra = extra0 + (IF act.pass THEN 1 ELSE 0),
              !.extra_opacity = IF act.pass THEN act.pass_opacity
                                ELSE IF extra0 = 0 THEN None ELSE @]

RemoveOverlayRenderer_kept(v, p) == p.extra

\* _render, lines 1129-1133: the renderers with layer > 0 left on the
\* primary surface once the tracked overlay renderer has been removed
RemoveOverlayRenderer(v, p) ==
    IF v.overlay_renderer THEN p.extra - 1 ELSE p.extra

\* VolumeWidget._render(reset_camera): result is the pair (widget, plotter)
_render(v, p, reset_camera) ==
    IF ~PYVISTA_AVAILABLE \/ p = None \/ v.current_data = None
    THEN [vw |-> v, plotter |-> p]
    ELSE LET camera_position == IF ~reset_camera THEN Some(p.camera) ELSE None
             sub == Subsample(v.current_data, v.current_seg_overlay, v.current_spacing)
             act == SceneActors(v, sub, 8)
             q   == WithActors(p, act, sub, RemoveOverlayRenderer(v, p))
         IN  [ vw      |-> [v EXCEPT !.overlay_renderer = act.pass],
               plotter |-> [q EXCEPT !.camera = IF camera_position # None
                                                THEN Val(camera_position)
                                                ELSE FitCamera(p.camera, sub)] ]

\* VolumeWidget._render_to_plotter(target_plotter, fullscreen)
_render_to_plotter(v, target, fullscreen) ==
    IF v.current_data = None THEN target
    ELSE LET sub == Subsample(v.current_data, v.current_seg_overlay, v.current_spacing)
             act == SceneActors(v, sub, IF fullscreen THEN 16 ELSE 8)
             q   == WithActors(target, act, sub, target.extra)
         IN  [q EXCEPT !.camera = FitCamera(target.camera, sub)]

FsRemoveOverlayRenderers_kept(target) == target.extra

\* _fs_render, lines 963-974: every renderer with layer > 0 is removed
FsRemoveOverlayRenderers(target) == 0

_fs_render_refit(v, fsp) ==
    IF fsp = None THEN fsp
    ELSE LET cleared == [Val(fsp) EXCEPT !.extra = FsRemoveOverlayRenderers(Val(fsp)),
                                         !.extra_opacity = None]
         IN  Some(_render_to_plotter(v, cleared, TRUE))

\* VolumeWidget._fs_render(): result is the fullscreen plotter (optional)
_fs_render(v, fsp) ==
    IF fsp = None THEN fsp
    ELSE LET cam_pos == Val(fsp).camera
             cleared == [Val(fsp) EXCEPT !.extra = FsRemoveOverlayRenderers(Val(fsp)),
                                         !.extra_opacity = None]
             q == _render_to_plotter(v, cleared, TRUE)
         IN  Some([q EXCEPT !.camera = cam_pos])

----------------------------------------------------------------------------
(* VolumeWidget: methods.  s is the whole state, the result the new state.  *)

\* self._render(reset_camera) applied to the state
Render(s, reset_camera) ==
    LET r == _render(s.vw, s.plotter, reset_camera)
    IN  [s EXCEPT !.vw = r.vw, !.plotter = r.plotter]

\* self._fs_render() applied to the state
FsRender(s) == [s EXCEPT !.fs_plotter = _fs_render(s.vw, s.fs_plotter)]

set_volume(s, data, is_segmentation, seg_overlay, reset_camera, reset_clim, spacing) ==
    LET v1 == [s.vw EXCEPT !.current_data = Some(data),
                           !.current_spacing = spacing,
                           !.current_seg_overlay = seg_overlay,
                           !.is_segmentation = is_segmentation,
                           !.data_min = data.min,
                           !.data_max = data.max]
        v2 == IF reset_clim
              THEN [v1 EXCEPT !.clim_min = 1000 * v1.data_min,
                              !.clim_max = 1000 * v1.data_max,
                              !.clim_widened = FALSE]
              ELSE v1
    IN  Render([s EXCEPT !.vw = v2], reset_camera)

update_clim(s, clim_min, clim_max) ==
    Render([s EXCEPT !.vw.clim_min = clim_min, !.vw.clim_max = clim_max,
                     !.vw.clim_widened = FALSE], FALSE)

update_colormap(s, cmap) ==
    IF cmap \in SeqToSet(COLORMAPS)
    THEN Render([s EXCEPT !.vw.colormap = cmap], FALSE)
    ELSE s

update_opacity_preset(s, preset) ==
    IF preset \in DOMAIN OPACITY_PRESETS
    THEN Render([s EXCEPT !.vw.opacity_preset = preset], FALSE)
    ELSE s

update_shade(s, enabled) == Render([s EXCEPT !.vw.shade_enabled = enabled], FALSE)

update_seg_opacity(s, opacity) == Render([s EXCEPT !.vw.seg_opacity = opacity], FALSE)

update_seg_always_visible(s, enabled) ==
    Render([s EXCEPT !.vw.seg_always_visible = enabled], FALSE)

\* variant: crossing the threshold re-renders the primary surface only
update_bg_color_primary(s, value) ==
    LET old_bg == s.vw.bg_color
        s1 == [s EXCEPT !.vw.bg_color = value,
                        !.plotter = IF @ = None THEN @
                                    ELSE [@ EXCEPT !.background = value],
                        !.fs_plotter = IF @ = None THEN @
                                       ELSE Some([Val(@) EXCEPT !.background = value])]
        crossed_threshold == (old_bg <= 50) # (value <= 50)
    IN  IF crossed_threshold /\ s1.vw.current_data # None
        THEN Render(s1, FALSE)
        ELSE s1

update_bg_color(s, value) ==
    LET old_bg == s.vw.bg_color
        s1 == [s EXCEPT !.vw.bg_color = value,
                        !.plotter = IF @ = None THEN @
                                    ELSE [@ EXCEPT !.background = value],
                        !.fs_plotter = IF @ = None THEN @
                                       ELSE Some([Val(@) EXCEPT !.background = value])]
        crossed_threshold == (old_bg <= 50) # (value <= 50)
    IN  IF crossed_threshold /\ s1.vw.current_data # None
        THEN LET s2 == Render(s1, FALSE)
             IN  IF s2.vw.is_fullscreen THEN FsRender(s2) ELSE s2
        ELSE s1

set_modalities(s, modalities, current) ==
    [s EXCEPT !.vw.modalities_list = modalities,
              !.vw.current_modality_name = current,
              !.vw.callbacks = TRUE]

set_patient_label(s, text) ==
    [s EXCEPT !.vw.patient_label_text = text,
              !.vw.fs_patient_label = IF @ # None THEN Some(text) ELSE @]

----------------------------------------------------------------------------
(* NiftiViewer: methods                                                     *)

----------------------------------------------------------------------------
(* SliceCanvas.  c is a canvas, the result the canvas after the call.       *)

\* the limits imshow(slice_data.T, origin='lower') gives n pixels: (-0.5, n - 0.5)
ImageExtent(n) == << <<-1, 2>>, <<2 * n - 1, 2>> >>

\* pixels along x and along y of the slice of a volume taken along axis:
\* image_data[i, :, :].T, image_data[:, i, :].T, image_data[:, :, i].T
SliceWidth(shape, axis) == IF axis = 0 THEN shape[2] ELSE shape[1]
SliceHeight(shape, axis) == IF axis = 2 THEN shape[2] ELSE shape[3]

set_crosshairs(c, h_pos, v_pos) ==
    [c EXCEPT !.crosshair_h = Some(h_pos), !.crosshair_v = Some(v_pos)]

\* variant: the redraw leaves the limits at the extent of the image
update_slice_autoscale(c, slice_idx, axis) ==
    IF c.image_data = None THEN c
    ELSE LET shape == Val(c.image_data).shape
             w == SliceWidth(shape, axis)
             h == SliceHeight(shape, axis)
         IN  [c EXCEPT !.axis = axis,
                       !.shown = Some([ slice_idx |-> slice_idx,
                                        width     |-> w,
                                        height    |-> h,
                                        overlay   |-> c.show_overlay /\ c.overlay_data # None,
                                        crosshair_h |-> c.crosshair_h,
                                        crosshair_v |-> c.crosshair_v ]),
                       !.ax_xlim = ImageExtent(w),
                       !.ax_ylim = ImageExtent(h)]

update_slice(c, slice_idx, axis) ==
    IF c.image_data = None THEN c
    ELSE LET shape == Val(c.image_data).shape
             w == SliceWidth(shape, axis)
             h == SliceHeight(shape, axis)
         IN  [c EXCEPT !.axis = axis,
                       !.shown = Some([ slice_idx |-> slice_idx,
                                        width     |-> w,
                                        height    |-> h,
                                        overlay   |-> c.show_overlay /\ c.overlay_data # None,
                                        crosshair_h |-> c.crosshair_h,
                                        crosshair_v |-> c.crosshair_v ]),
                       !.ax_xlim = IF c._xlim # None THEN Val(c._xlim) ELSE ImageExtent(w),
                       !.ax_ylim = IF c._ylim # None THEN Val(c._ylim) ELSE ImageExtent(h)]

\* ax.autoscale(): the limits return to the extent of the image drawn
reset_zoom(c) ==
    LET c1 == [c EXCEPT !._xlim = None, !._ylim = None]
    IN  IF c.image_data # None /\ c.shown # None
        THEN [c1 EXCEPT !.ax_xlim = ImageExtent(Val(c.shown).width),
                        !.ax_ylim = ImageExtent(Val(c.shown).height)]
        ELSE c1

\* a mouse event of matplotlib: inaxes is event.inaxes == self.ax, xdata and
\* ydata the cursor in data coordinates
MouseEvent(inaxes, button, dblclick, xdata, ydata) ==
    [inaxes |-> inaxes, button |-> button, dblclick |-> dblclick,
     xdata |-> xdata, ydata |-> ydata]

\* variant: a zoom-in tick removes a fifth of the extent
ZoomFactor_fifth(button) == IF button = "down" THEN <<6, 5>> ELSE <<4, 5>>

\* zoom factors of _on_scroll: 1.2 and 1 / 1.2
ZoomFactor(button) == IF button = "down" THEN <<6, 5>> ELSE <<5, 6>>

_on_scroll(c, event) ==
    IF ~event.inaxes \/ c.image_data = None THEN c
    ELSE LET zoom_factor == ZoomFactor(event.button)
             xlim == c.ax_xlim
             ylim == c.ax_ylim
             new_width  == FracMul(FracSub(xlim[2], xlim[1]), zoom_factor)
             new_height == FracMul(FracSub(ylim[2], ylim[1]), zoom_factor)
             rel_x == FracDiv(FracSub(event.xdata, xlim[1]), FracSub(xlim[2], xlim[1]))
             rel_y == FracDiv(FracSub(event.ydata, ylim[1]), FracSub(ylim[2], ylim[1]))
             new_xlim == << FracSub(event.xdata, FracMul(rel_x, new_width)),
                            FracAdd(event.xdata,
                                    FracMul(FracSub(FracInt(1), rel_x), new_width)) >>
             new_ylim == << FracSub(event.ydata, FracMul(rel_y, new_height)),
                            FracAdd(event.ydata,
                                    FracMul(FracSub(FracInt(1), rel_y), new_height)) >>
         IN  [c EXCEPT !.ax_xlim = new_xlim, !.ax_ylim = new_ylim,
                       !._xlim = Some(new_xlim), !._ylim = Some(new_ylim)]

_on_motion(c, event) ==
    IF c._pan_start = None \/ ~event.inaxes THEN c
    ELSE LET dx == FracSub(Val(c._pan_start)[1], event.xdata)
             dy == FracSub(Val(c._pan_start)[2], event.ydata)
             new_xlim == << FracAdd(Val(c._pan_xlim)[1], dx), FracAdd(Val(c._pan_xlim)[2], dx) >>
             new_ylim == << FracAdd(Val(c._pan_ylim)[1], dy), FracAdd(Val(c._pan_ylim)[2], dy) >>
         IN  [c EXCEPT !.ax_xlim = new_xlim, !.ax_ylim = new_ylim,
                       !._xlim = Some(new_xlim), !._ylim = Some(new_ylim)]

\* variant: the drag ends with the left button
_on_release_left(c, event) ==
    IF event.button = 1 THEN [c EXCEPT !._pan_start = None] ELSE c

_on_release(c, event) ==
    IF event.button = 2 THEN [c EXCEPT !._pan_start = None] ELSE c

\* variant: the sagittal view's crosshair positions are exchanged
_update_all_views_swapped(s) ==
    LET sag == s.viewer.slice_indices[1]
        cor == s.viewer.slice_indices[2]
        axi == s.viewer.slice_indices[3]
        c   == s.viewer.canvas
    IN  [s EXCEPT !.viewer.canvas =
            << update_slice(set_crosshairs(c[1], cor, axi), sag, 0),
               update_slice(set_crosshairs(c[2], axi, sag), cor, 1),
               update_slice(set_crosshairs(c[3], cor, sag), axi, 2) >>]

\* NiftiViewer._update_all_views: canvas[axis + 1] is the view along axis
_update_all_views(s) ==
    LET sag == s.viewer.slice_indices[1]
        cor == s.viewer.slice_indices[2]
        axi == s.viewer.slice_indices[3]
        c   == s.viewer.canvas
    IN  [s EXCEPT !.viewer.canvas =
            << update_slice(set_crosshairs(c[1], axi, cor), sag, 0),
               update_slice(set_crosshairs(c[2], axi, sag), cor, 1),
               update_slice(set_crosshairs(c[3], cor, sag), axi, 2) >>]

\* canvas.set_overlay(seg_data if show else None, show=show) on the three canvases
_update_overlay_state(s) ==
    LET seg_data == IF "seg" \in DOMAIN s.viewer.modalities
                    THEN Some(s.viewer.modalities["seg"].data) ELSE None
        show == s.viewer.overlay_enabled /\ seg_data # None
    IN  [s EXCEPT !.viewer.canvas =
            [i \in 1..3 |-> [@[i] EXCEPT !.overlay_data = IF show THEN seg_data ELSE None,
                                         !.show_overlay = show]]]

\* variant: the indices are bounded to the new volume, not set to its midpoint
_apply_modality_to_2d_views_keep(s, data) ==
    LET shape == data.shape
        maxs  == [i \in 1..3 |-> Max2(0, shape[i] - 1)]
        kept  == [i \in 1..3 |-> Min2(s.viewer.slice_indices[i], maxs[i])]
        s1 == [s EXCEPT !.viewer.max_slices = shape,
                        !.viewer.slice_indices = kept,
                        !.viewer.slice_slider =
                            [i \in 1..3 |-> Slider(QSliderValue(kept[i], maxs[i]), maxs[i])],
                        !.viewer.canvas =
                            [i \in 1..3 |-> [@[i] EXCEPT !.image_data = Some(data)]]]
    IN  _update_all_views(_update_overlay_state(s1))

\* The valueChanged signals emitted by setMaximum / setValue inside this method
\* re-enter _on_slider_changed with values the method assigns anyway and redraw
\* the canvases from the previous image (a redraw that raises IndexError in the
\* slot when the new midpoint lies beyond the previous image); the statements
\* after them give the state below, the closing _update_all_views redrawing
\* the canvases from the new image.
_apply_modality_to_2d_views(s, data) ==
    LET shape == data.shape
        mids  == [i \in 1..3 |-> shape[i] \div 2]
        maxs  == [i \in 1..3 |-> Max2(0, shape[i] - 1)]
        s1 == [s EXCEPT !.viewer.max_slices = shape,
                        !.viewer.slice_indices = mids,
                        !.viewer.slice_slider =
                            [i \in 1..3 |-> Slider(QSliderValue(mids[i], maxs[i]), maxs[i])],
                        !.viewer.canvas =
                            [i \in 1..3 |-> [@[i] EXCEPT !.image_data = Some(data)]]]
    IN  _update_all_views(_update_overlay_state(s1))

\* the overlay passed to the 3D view for the given modality name
SegDataFor(s, modality) ==
    IF "seg" \in DOMAIN s.viewer.modalities /\ ~IsSegName(modality)
    THEN Some(s.viewer.modalities["seg"].data)
    ELSE None

_update_contrast_sliders(s) ==
    [s EXCEPT !.viewer.clim_min_slider = 0, !.viewer.clim_max_slider = 1000]

\* variant: the volume is always set with reset_clim=True
_update_3d_view_reset(s, reset_camera, reset_contrast) ==
    IF s.viewer.current_modality = NoModality
       \/ s.viewer.current_modality \notin DOMAIN s.viewer.modalities
    THEN s
    ELSE
      LET modality_info == s.viewer.modalities[s.viewer.current_modality]
      IN  _update_contrast_sliders(
              set_volume(s, modality_info.data, IsSegName(s.viewer.current_modality),
                         SegDataFor(s, s.viewer.current_modality), reset_camera, TRUE,
                         modality_info.spacing))

_update_3d_view(s, reset_camera, reset_contrast) ==
    IF s.viewer.current_modality = NoModality
       \/ s.viewer.current_modality \notin DOMAIN s.viewer.modalities
    THEN s
    ELSE
      LET modality_info == s.viewer.modalities[s.viewer.current_modality]
          data     == modality_info.data
          spacing  == modality_info.spacing
          is_seg   == IsSegName(s.viewer.current_modality)
          seg_overlay == SegDataFor(s, s.viewer.current_modality)
      IN  IF reset_contrast
          THEN _update_contrast_sliders(
                   set_volume(s, data, is_seg, seg_overlay, reset_camera, TRUE, spacing))
          ELSE
            LET min_pct == s.viewer.clim_min_slider
                max_pct == s.viewer.clim_max_slider
                s1 == set_volume(s, data, is_seg, seg_overlay, reset_camera, FALSE, spacing)
                data_range == s1.vw.data_max - s1.vw.data_min
                s2 == IF data_range > 0
                      THEN [s1 EXCEPT
                              !.vw.clim_min = PctToClim(s1.vw.data_min, s1.vw.data_max, min_pct),
                              !.vw.clim_max = PctToClim(s1.vw.data_min, s1.vw.data_max, max_pct),
                              !.vw.clim_widened = FALSE]
                      ELSE s1
            IN  Render(s2, FALSE)

_on_modality_changed(s, modality, reset_camera) ==
    IF modality = "" \/ modality \notin DOMAIN s.viewer.modalities
    THEN s
    ELSE
      LET s1 == [s EXCEPT !.viewer.current_modality = modality]
          data == s1.viewer.modalities[modality].data
          s2 == _apply_modality_to_2d_views(s1, data)
          s3 == _update_3d_view(s2, reset_camera, FALSE)
      IN  [s3 EXCEPT !.vw.current_modality_name = modality]

_on_modality_changed_from_fullscreen(s, modality) ==
    IF modality = "" \/ modality \notin DOMAIN s.viewer.modalities
    THEN s
    ELSE
      LET s1 == [s EXCEPT !.viewer.modality_combo.text = modality,
                          !.viewer.current_modality = modality]
          modality_info == s1.viewer.modalities[modality]
          data == modality_info.data
          s2 == _apply_modality_to_2d_views(s1, data)
      IN  [s2 EXCEPT !.vw.current_data = Some(data),
                     !.vw.current_spacing = modality_info.spacing,
                     !.vw.current_seg_overlay = SegDataFor(s1, modality),
                     !.vw.is_segmentation = IsSegName(modality),
                     !.vw.data_min = data.min,
                     !.vw.data_max = data.max]

\* _load_patient(self.patient_list[idx]) with self.current_patient_idx = idx
_load_patient(s, idx) ==
    LET patient_dir == s.viewer.patient_list[idx + 1]
        loaded == DirContents(patient_dir)
        s0 == [s EXCEPT !.viewer.modalities = loaded]
    IN  IF DOMAIN loaded = {}
        THEN [s0 EXCEPT !.viewer.path_label = <<"Failed to load any NIfTI files">>]
        ELSE
          LET sorted_modalities == SortedModalities(DOMAIN loaded)
              label == <<PatientName(patient_dir), idx + 1, Len(s.viewer.patient_list)>>
              target_modality ==
                  IF s.viewer.current_modality # NoModality
                     /\ s.viewer.current_modality \in SeqToSet(sorted_modalities)
                  THEN s.viewer.current_modality
                  ELSE sorted_modalities[1]
              s1 == [s0 EXCEPT !.viewer.path_label = label,
                               !.viewer.modality_combo =
                                   [items |-> sorted_modalities, text |-> target_modality]]
              s2 == set_modalities(s1, sorted_modalities, sorted_modalities[1])
              s3 == set_patient_label(s2, label)
          IN  _on_modality_changed(s3, target_modality, TRUE)

_prev_patient(s) ==
    IF s.viewer.current_patient_idx > 0
    THEN _load_patient([s EXCEPT !.viewer.current_patient_idx = @ - 1],
                       s.viewer.current_patient_idx - 1)
    ELSE s

_next_patient(s) ==
    IF s.viewer.current_patient_idx < Len(s.viewer.patient_list) - 1
    THEN _load_patient([s EXCEPT !.viewer.current_patient_idx = @ + 1],
                       s.viewer.current_patient_idx + 1)
    ELSE s

\* variant: the upper bound is applied as computed
EnsureMinLtMax_unchecked(min_val, max_val, data_range) == max_val

\* lines 1806-1808: the upper bound applied when min_val >= max_val
EnsureMinLtMax(min_val, max_val, data_range) ==
    IF min_val >= max_val THEN min_val + 10 * data_range ELSE max_val

_on_clim_changed(s) ==
    LET data_min == s.vw.data_min
        data_max == s.vw.data_max
        data_range == data_max - data_min
        min_val == PctToClim(data_min, data_max, s.viewer.clim_min_slider)
        max_val == PctToClim(data_min, data_max, s.viewer.clim_max_slider)
        s1 == update_clim(s, min_val, EnsureMinLtMax(min_val, max_val, data_range))
    IN  [s1 EXCEPT !.vw.clim_widened = (min_val >= max_val)]

_on_window_preset_changed(s, preset) ==
    IF preset \notin DOMAIN WINDOW_PRESETS
    THEN s
    ELSE LET min_pct == WINDOW_PRESETS[preset][1]
             max_pct == WINDOW_PRESETS[preset][2]
         IN  _on_clim_changed([s EXCEPT !.viewer.clim_min_slider = QSliderValue(min_pct * 10, CLIM_SLIDER_MAX),
                                        !.viewer.clim_max_slider = QSliderValue(max_pct * 10, CLIM_SLIDER_MAX)])

_sync_controls_from_volume_widget(s) ==
    LET v == s.vw
        s1 == [s EXCEPT !.viewer.colormap_combo = v.colormap,
                        !.viewer.opacity_combo = v.opacity_preset,
                        !.viewer.shade_checkbox = v.shade_enabled,
                        !.viewer.seg_opacity_slider =
                            QSliderValue(IntHundredths(v.seg_opacity), PCT_SLIDER_MAX),
                        !.viewer.seg_always_visible_checkbox = v.seg_always_visible,
                        !.viewer.bg_slider =
                            QSliderValue(IntHundredths(v.bg_color), PCT_SLIDER_MAX)]
    IN  IF v.data_max > v.data_min
        THEN [s1 EXCEPT
                !.viewer.clim_min_slider =
                    QSliderValue(ClimToPct(v.clim_min, v.data_min, v.data_max, FALSE),
                                 CLIM_SLIDER_MAX),
                !.viewer.clim_max_slider =
                    QSliderValue(ClimToPct(v.clim_max, v.data_min, v.data_max, v.clim_widened),
                                 CLIM_SLIDER_MAX)]
        ELSE s1

\* the slider's valueChanged signal: _on_slider_changed(axis, value), axis in 0..2
_on_slider_changed(s, axis, value) ==
    _update_all_views([s EXCEPT !.viewer.slice_indices[axis + 1] = value])

\* slider.setValue(v) of a slice slider: bounded, and the signal fires on a change
SetSliceSlider(s, axis, v) ==
    LET sl == s.viewer.slice_slider[axis + 1]
        nv == QSliderValue(v, sl.maximum)
    IN  IF nv = sl.value THEN s
        ELSE _on_slider_changed([s EXCEPT !.viewer.slice_slider[axis + 1].value = nv],
                                axis, nv)

_on_reset_view(s) ==
    IF s.viewer.current_modality = NoModality
       \/ s.viewer.current_modality \notin DOMAIN s.viewer.modalities
    THEN s
    ELSE
      LET data == s.viewer.modalities[s.viewer.current_modality].data
          mid_slices == [i \in 1..3 |-> data.shape[i] \div 2]
          s0 == SetSliceSlider(SetSliceSlider(SetSliceSlider(s, 0, mid_slices[1]),
                                              1, mid_slices[2]),
                               2, mid_slices[3])
          s1 == [s0 EXCEPT
                   !.viewer.clim_min_slider = 0,
                   !.viewer.clim_max_slider = 1000,
                   !.viewer.window_preset_combo = "Full Range",
                   !.viewer.colormap_combo = "gray",
                   !.viewer.opacity_combo = "medium",
                   !.viewer.shade_checkbox = FALSE,
                   !.viewer.seg_opacity_slider = 0,
                   !.viewer.seg_always_visible_checkbox = FALSE,
                   !.viewer.bg_slider = 0,
                   \* axial_canvas, coronal_canvas, sagittal_canvas .reset_zoom()
                   !.viewer.canvas = [i \in 1..3 |-> reset_zoom(@[i])],
                   !.vw.colormap = "gray",
                   !.vw.opacity_preset = "medium",
                   !.vw.shade_enabled = FALSE,
                   !.vw.seg_opacity = 0,
                   !.vw.seg_always_visible = FALSE,
                   !.vw.clim_min = 1000 * s.vw.data_min,
                   !.vw.clim_max = 1000 * s.vw.data_max,
                   !.vw.clim_widened = FALSE]
      IN  Render(update_bg_color(s1, 0), TRUE)

\* max(0, min(x, self.max_slices[k] - 1))
ClampIndex(x, max_slice) == Max2(0, Min2(x, max_slice - 1))

_on_canvas_click_transposed(s, axis, x, y) ==
    IF s.viewer.current_modality = NoModality THEN s
    ELSE LET ms == s.viewer.max_slices
         IN  CASE axis = 0 ->
                    SetSliceSlider(SetSliceSlider(s, 1, ClampIndex(y, ms[2])),
                                   2, ClampIndex(x, ms[3]))
               [] axis = 1 ->
                    SetSliceSlider(SetSliceSlider(s, 0, ClampIndex(y, ms[1])),
                                   2, ClampIndex(x, ms[3]))
               [] OTHER ->
                    SetSliceSlider(SetSliceSlider(s, 0, ClampIndex(y, ms[1])),
                                   1, ClampIndex(x, ms[2]))

_on_canvas_click(s, axis, x, y) ==
    IF s.viewer.current_modality = NoModality THEN s
    ELSE LET ms == s.viewer.max_slices
         IN  CASE axis = 0 ->
                    SetSliceSlider(SetSliceSlider(s, 1, ClampIndex(x, ms[2])),
                                   2, ClampIndex(y, ms[3]))
               [] axis = 1 ->
                    SetSliceSlider(SetSliceSlider(s, 0, ClampIndex(x, ms[1])),
                                   2, ClampIndex(y, ms[3]))
               [] OTHER ->
                    SetSliceSlider(SetSliceSlider(s, 0, ClampIndex(x, ms[1])),
                                   1, ClampIndex(y, ms[2]))

\* SliceCanvas._on_click of canvas[k]; click_callback is _on_canvas_click
\* (set for the three canvases at construction)
_on_click_navigate(s, k, event) ==
    LET c == s.viewer.canvas[k]
    IN  IF ~event.inaxes \/ c.image_data = None THEN s
        ELSE IF event.button = 2
        THEN [s EXCEPT !.viewer.canvas[k] =
                 [c EXCEPT !._pan_start = Some(<<event.xdata, event.ydata>>),
                           !._pan_xlim = Some(c.ax_xlim),
                           !._pan_ylim = Some(c.ax_ylim)]]
        ELSE IF event.button = 1
        THEN _on_canvas_click([s EXCEPT !.viewer.canvas[k] = reset_zoom(c)],
                              c.axis, IntRound(event.xdata), IntRound(event.ydata))
        ELSE s

_on_click(s, k, event) ==
    LET c == s.viewer.canvas[k]
    IN  IF ~event.inaxes \/ c.image_data = None THEN s
        ELSE IF event.dblclick
        THEN [s EXCEPT !.viewer.canvas[k] = reset_zoom(c)]
        ELSE IF event.button = 2
        THEN [s EXCEPT !.viewer.canvas[k] =
                 [c EXCEPT !._pan_start = Some(<<event.xdata, event.ydata>>),
                           !._pan_xlim = Some(c.ax_xlim),
                           !._pan_ylim = Some(c.ax_ylim)]]
        ELSE IF event.button = 1
        THEN _on_canvas_click(s, c.axis, IntRound(event.xdata), IntRound(event.ydata))
        ELSE s

----------------------------------------------------------------------------
(* VolumeWidget: fullscreen mirror                                          *)

\* the initial position of a fullscreen contrast slider (lines 751, 759)
FsSliderInit(v, clim, widened, default) ==
    IF v.data_max > v.data_min
    THEN QSliderValue(ClimToPct(clim, v.data_min, v.data_max, widened), CLIM_SLIDER_MAX)
    ELSE default

toggle_fullscreen(s) ==
    IF ~PYVISTA_AVAILABLE \/ s.plotter = None THEN s
    ELSE IF s.vw.is_fullscreen
    THEN \* exit
      LET s1 == [s EXCEPT !.vw.fullscreen_window = FALSE,
                          !.fs_plotter = None,
                          !.vw.fs_patient_label = None,
                          !.vw.fs_modality_combo = None,
                          !.vw.fs_clim_min_slider = None,
                          !.vw.fs_clim_max_slider = None,
                          !.vw.fs_seg_opacity_slider = None,
                          !.vw.fs_bg_slider = None,
                          \* the remaining controls are closed with the window;
                          \* their attributes are reassigned on the next enter
                          \* before anything reads them
                          !.vw.fs_preset_combo = None,
                          !.vw.fs_cmap_combo = None,
                          !.vw.fs_opacity_combo = None,
                          !.vw.fs_shade_checkbox = None,
                          !.vw.fs_seg_always_visible_checkbox = None,
                          !.vw.is_fullscreen = FALSE]
          s2 == IF s1.vw.callbacks THEN _sync_controls_from_volume_widget(s1) ELSE s1
      IN  Render(s2, FALSE)
    ELSE \* enter
      LET v == s.vw
          v1 == [v EXCEPT
                   !.fullscreen_window = TRUE,
                   !.fs_patient_label =
                       Some(IF v.patient_label_text # <<>> THEN v.patient_label_text
                            ELSE <<"No patient loaded">>),
                   !.fs_modality_combo =
                       Some(IF v.modalities_list # <<>>
                            THEN [items |-> v.modalities_list,
                                  text  |-> IF v.current_modality_name
                                                \in SeqToSet(v.modalities_list)
                                            THEN v.current_modality_name
                                            ELSE v.modalities_list[1]]
                            ELSE [items |-> <<>>, text |-> ""]),
                   !.fs_clim_min_slider = Some(FsSliderInit(v, v.clim_min, FALSE, 0)),
                   !.fs_clim_max_slider = Some(FsSliderInit(v, v.clim_max, v.clim_widened, 1000)),
                   !.fs_preset_combo = Some("Full Range"),
                   !.fs_cmap_combo = Some(v.colormap),
                   !.fs_opacity_combo = Some(v.opacity_preset),
                   !.fs_shade_checkbox = Some(v.shade_enabled),
                   !.fs_seg_opacity_slider =
                       Some(QSliderValue(IntHundredths(v.seg_opacity), PCT_SLIDER_MAX)),
                   !.fs_seg_always_visible_checkbox = Some(v.seg_always_visible),
                   !.fs_bg_slider = Some(QSliderValue(IntHundredths(v.bg_color), PCT_SLIDER_MAX)),
                   !.is_fullscreen = TRUE]
          fresh == NewPlotter(v.bg_color)
      IN  [s EXCEPT !.vw = v1,
                    !.fs_plotter = Some(IF v.current_data # None
                                        THEN _render_to_plotter(v, fresh, TRUE)
                                        ELSE fresh)]

\* variant: a gap equal to the timeout still counts as a double click
on_left_button_press_inclusive(s, current_time) ==
    LET s1 == IF current_time - s.vw._last_click_time <= DOUBLE_CLICK_TIMEOUT
              THEN LET s2 == [s EXCEPT !.vw._click_count = @ + 1]
                   IN  IF s2.vw._click_count >= 2
                       THEN [toggle_fullscreen(s2) EXCEPT !.vw._click_count = 0]
                       ELSE s2
              ELSE [s EXCEPT !.vw._click_count = 1]
    IN  [s1 EXCEPT !.vw._last_click_time = current_time]

on_left_button_press_noreset(s, current_time) ==
    LET s1 == IF current_time - s.vw._last_click_time < DOUBLE_CLICK_TIMEOUT
              THEN LET s2 == [s EXCEPT !.vw._click_count = @ + 1]
                   IN  IF s2.vw._click_count >= 2 THEN toggle_fullscreen(s2) ELSE s2
              ELSE [s EXCEPT !.vw._click_count = 1]
    IN  [s1 EXCEPT !.vw._last_click_time = current_time]

\* the LeftButtonPressEvent observer of the primary surface
on_left_button_press(s, current_time) ==
    LET s1 == IF current_time - s.vw._last_click_time < DOUBLE_CLICK_TIMEOUT
              THEN LET s2 == [s EXCEPT !.vw._click_count = @ + 1]
                   IN  IF s2.vw._click_count >= 2
                       THEN [toggle_fullscreen(s2) EXCEPT !.vw._click_count = 0]
                       ELSE s2
              ELSE [s EXCEPT !.vw._click_count = 1]
    IN  [s1 EXCEPT !.vw._last_click_time = current_time]

_fs_on_clim_changed(s) ==
    LET v == s.vw
        data_range == v.data_max - v.data_min
        clim_min == PctToClim(v.data_min, v.data_max, Val(v.fs_clim_min_slider))
        clim_max == PctToClim(v.data_min, v.data_max, Val(v.fs_clim_max_slider))
    IN  FsRender([s EXCEPT !.vw.clim_min = clim_min,
                           !.vw.clim_max = EnsureMinLtMax(clim_min, clim_max, data_range),
                           !.vw.clim_widened = (clim_min >= clim_max)])

\* variant: the preset moves the sliders only
_fs_on_preset_changed_sliders(s, preset) ==
    IF preset \notin DOMAIN WINDOW_PRESETS THEN s
    ELSE LET min_pct == WINDOW_PRESETS[preset][1]
             max_pct == WINDOW_PRESETS[preset][2]
         IN  FsRender([s EXCEPT
                 !.vw.fs_clim_min_slider = Some(QSliderValue(min_pct * 10, CLIM_SLIDER_MAX)),
                 !.vw.fs_clim_max_slider = Some(QSliderValue(max_pct * 10, CLIM_SLIDER_MAX))])

_fs_on_preset_changed(s, preset) ==
    IF preset \notin DOMAIN WINDOW_PRESETS THEN s
    ELSE LET min_pct == WINDOW_PRESETS[preset][1]
             max_pct == WINDOW_PRESETS[preset][2]
             v == s.vw
         IN  FsRender([s EXCEPT
                 !.vw.fs_clim_min_slider = Some(QSliderValue(min_pct * 10, CLIM_SLIDER_MAX)),
                 !.vw.fs_clim_max_slider = Some(QSliderValue(max_pct * 10, CLIM_SLIDER_MAX)),
                 !.vw.clim_min = PctToClim(v.data_min, v.data_max, min_pct * 10),
                 !.vw.clim_max = PctToClim(v.data_min, v.data_max, max_pct * 10),
                 !.vw.clim_widened = FALSE])

_fs_on_colormap_changed_local(s, cmap) == FsRender(s)

\* lines 1005-1008: the colormap is stored before the fullscreen re-render
_fs_on_colormap_changed(s, cmap) == FsRender([s EXCEPT !.vw.colormap = cmap])

_fs_on_opacity_changed(s, preset) ==
    IF preset \in DOMAIN OPACITY_PRESETS
    THEN FsRender([s EXCEPT !.vw.opacity_preset = preset])
    ELSE s

_fs_on_shade_changed(s, checked) == FsRender([s EXCEPT !.vw.shade_enabled = checked])

_fs_on_seg_opacity_changed(s) ==
    FsRender([s EXCEPT !.vw.seg_opacity = Val(s.vw.fs_seg_opacity_slider)])

_fs_on_seg_always_visible_changed(s, checked) ==
    FsRender([s EXCEPT !.vw.seg_always_visible = checked])

_fs_on_bg_changed(s) ==
    IF s.vw.fs_bg_slider # None
    THEN update_bg_color(s, Val(s.vw.fs_bg_slider))
    ELSE s

\* variant: the sliders are left where the callback put them and clim is
\* not recomputed
RestorePercentages_skipped(s, min_pct, max_pct) == s

\* lines 1047-1055: the sliders are put back and clim is recomputed from them
RestorePercentages(s, min_pct, max_pct) ==
    IF s.vw.fs_clim_min_slider # None
    THEN LET s1 == [s EXCEPT !.vw.fs_clim_min_slider = Some(QSliderValue(min_pct, CLIM_SLIDER_MAX)),
                             !.vw.fs_clim_max_slider = Some(QSliderValue(max_pct, CLIM_SLIDER_MAX))]
         IN  IF s1.vw.data_max > s1.vw.data_min
             THEN [s1 EXCEPT
                     !.vw.clim_min = PctToClim(s1.vw.data_min, s1.vw.data_max, min_pct),
                     !.vw.clim_max = PctToClim(s1.vw.data_min, s1.vw.data_max, max_pct),
                     !.vw.clim_widened = FALSE]
             ELSE s1
    ELSE s

_fs_on_modality_changed(s, modality) ==
    IF s.vw.callbacks /\ modality # ""
    THEN LET min_pct == IF s.vw.fs_clim_min_slider # None
                        THEN Val(s.vw.fs_clim_min_slider) ELSE 0
             max_pct == IF s.vw.fs_clim_max_slider # None
                        THEN Val(s.vw.fs_clim_max_slider) ELSE 1000
             s1 == [s EXCEPT !.vw.current_modality_name = modality]
             s2 == _on_modality_changed_from_fullscreen(s1, modality)
         IN  FsRender(RestorePercentages(s2, min_pct, max_pct))
    ELSE s

_fs_reset_camera(s) ==
    IF s.fs_plotter # None
    THEN [s EXCEPT !.fs_plotter =
             Some([Val(@) EXCEPT !.camera =
                     [view |-> "isometric",
                      fit  |-> IF Val(s.fs_plotter).dims # None
                               THEN Some(<<Val(Val(s.fs_plotter).dims),
                                           Val(Val(s.fs_plotter).spacing)>>)
                               ELSE None]])]
    ELSE s

_update_fs_after_patient_change(s) ==
    LET v == s.vw
        s1 == [s EXCEPT
                 !.vw.fs_patient_label = IF @ # None THEN Some(v.patient_label_text) ELSE @,
                 !.vw.fs_modality_combo =
                     IF @ # None
                     THEN Some([items |-> v.modalities_list,
                                text  |-> IF v.current_modality_name
                                              \in SeqToSet(v.modalities_list)
                                          THEN v.current_modality_name
                                          ELSE IF v.modalities_list # <<>>
                                               THEN v.modalities_list[1] ELSE ""])
                     ELSE @]
        s2 == IF v.fs_clim_min_slider # None /\ v.data_max > v.data_min
              THEN [s1 EXCEPT
                      !.vw.clim_min = PctToClim(v.data_min, v.data_max, Val(v.fs_clim_min_slider)),
                      !.vw.clim_max = PctToClim(v.data_min, v.data_max, Val(v.fs_clim_max_slider)),
                      !.vw.clim_widened = FALSE]
              ELSE s1
    IN  FsRender(s2)

_fs_prev_patient(s) ==
    IF s.vw.callbacks THEN _update_fs_after_patient_change(_prev_patient(s)) ELSE s

_fs_next_patient(s) ==
    IF s.vw.callbacks THEN _update_fs_after_patient_change(_next_patient(s)) ELSE s

----------------------------------------------------------------------------
(* Events of the primary window.  The fullscreen window is a separate      *)
(* top-level window; the main window stays enabled while it is shown.      *)

\* the main window is shown from construction on (main(): viewer.show())
MainWindow == viewer.current_patient_idx >= 0

\* pixel coordinates of a click, inside and outside the displayed slice
ClickInputs == {-3, 64, 300}

\* positions the overlay opacity sliders are dragged to
SegOpacityInputs == {0, 50}

\* positions a slice slider is dragged to
SliceInputs == {100}

\* "Browse": _scan_patient_directories + _load_patient of the chosen directory
BrowsePatient(i) ==
    /\ i \in 1..Len(PatientDirs)
    /\ Commit(_load_patient([St EXCEPT
                  !.viewer.patient_list = [k \in 1..Len(PatientDirs) |-> CohortPath(k)],
                  !.viewer.current_patient_idx = i - 1], i - 1),
              "_browse_patient")

\* the first browse of a session, into a folder with the single patient
\* directory VolumePath(shape, spacing)
OpenVolume(shape, spacing) ==
    /\ viewer.patient_list = <<>>
    /\ Commit(_load_patient([St EXCEPT
                  !.viewer.patient_list = <<VolumePath(shape, spacing)>>,
                  !.viewer.current_patient_idx = 0], 0),
              "_browse_patient")

\* "Browse" into the folder with the single patient directory SparsePath
OpenSparse ==
    /\ MainWindow
    /\ Commit(_load_patient([St EXCEPT
                  !.viewer.patient_list = <<SparsePath>>,
                  !.viewer.current_patient_idx = 0], 0),
              "_browse_patient")

\* "< Prev" is enabled by _update_nav_buttons
PrevPatient ==
    /\ Len(viewer.patient_list) > 1 /\ viewer.current_patient_idx > 0
    /\ Commit(_prev_patient(St), "_prev_patient")

NextPatient ==
    /\ Len(viewer.patient_list) > 1
    /\ viewer.current_patient_idx < Len(viewer.patient_list) - 1
    /\ Commit(_next_patient(St), "_next_patient")

\* the user picks another entry of the modality combo (currentTextChanged)
ModalityChanged(m) ==
    /\ m \in SeqToSet(viewer.modality_combo.items)
    /\ m # viewer.modality_combo.text
    /\ Commit(_on_modality_changed([St EXCEPT !.viewer.modality_combo.text = m], m, FALSE),
              "_on_modality_changed")

\* a contrast slider is dragged (valueChanged only updates the labels)
ClimMinSliderMoved(v) ==
    /\ v \in 0..CLIM_SLIDER_MAX /\ v # viewer.clim_min_slider
    /\ Commit([St EXCEPT !.viewer.clim_min_slider = v], "_on_clim_label_update")

ClimMaxSliderMoved(v) ==
    /\ v \in 0..CLIM_SLIDER_MAX /\ v # viewer.clim_max_slider
    /\ Commit([St EXCEPT !.viewer.clim_max_slider = v], "_on_clim_label_update")

\* sliderReleased of either contrast slider
ClimSliderReleased ==
    /\ MainWindow
    /\ Commit(_on_clim_changed(St), "_on_clim_changed")

WindowPresetChanged(preset) ==
    /\ preset \in DOMAIN WINDOW_PRESETS
    /\ preset # viewer.window_preset_combo
    /\ Commit(_on_window_preset_changed(
                  [St EXCEPT !.viewer.window_preset_combo = preset], preset),
              "_on_window_preset_changed")

ColormapChanged(cmap) ==
    /\ cmap \in SeqToSet(COLORMAPS) /\ cmap # viewer.colormap_combo
    /\ Commit(update_colormap([St EXCEPT !.viewer.colormap_combo = cmap], cmap),
              "_on_colormap_changed")

OpacityPresetChanged(preset) ==
    /\ preset \in DOMAIN OPACITY_PRESETS /\ preset # viewer.opacity_combo
    /\ Commit(update_opacity_preset([St EXCEPT !.viewer.opacity_combo = preset], preset),
              "_on_opacity_preset_changed")

ShadeChanged ==
    /\ MainWindow
    /\ LET checked == ~viewer.shade_checkbox
       IN  Commit(update_shade([St EXCEPT !.viewer.shade_checkbox = checked], checked),
                  "_on_shade_changed")

SegOpacitySliderMoved(v) ==
    /\ v \in 0..PCT_SLIDER_MAX /\ v # viewer.seg_opacity_slider
    /\ Commit([St EXCEPT !.viewer.seg_opacity_slider = v], "_on_seg_opacity_label_update")

SegOpacitySliderReleased ==
    /\ MainWindow
    /\ Commit(update_seg_opacity(St, viewer.seg_opacity_slider), "_on_seg_opacity_changed")

SegAlwaysVisibleChanged ==
    /\ MainWindow
    /\ LET checked == ~viewer.seg_always_visible_checkbox
       IN  Commit(update_seg_always_visible(
                      [St EXCEPT !.viewer.seg_always_visible_checkbox = checked], checked),
                  "_on_seg_always_visible_changed")

BgSliderMoved(v) ==
    /\ v \in 0..PCT_SLIDER_MAX /\ v # viewer.bg_slider
    /\ Commit([St EXCEPT !.viewer.bg_slider = v], "_on_bg_label_update")

BgSliderReleased ==
    /\ MainWindow
    /\ Commit(update_bg_color(St, viewer.bg_slider), "_on_bg_changed")

ResetView ==
    /\ MainWindow
    /\ Commit(_on_reset_view(St), "_on_reset_view")

\* a slice slider is moved by the user
SliceSliderMoved(axis, v) ==
    /\ axis \in 0..2
    /\ v \in 0..viewer.slice_slider[axis + 1].maximum
    /\ v # viewer.slice_slider[axis + 1].value
    /\ Commit(SetSliceSlider(St, axis, v), "_on_slider_changed")

\* SliceCanvas._on_click, left button: the canvas must hold data
CanvasClick(axis, x, y) ==
    /\ axis \in 0..2
    /\ vw.current_data # None
    /\ CommitArgs(_on_canvas_click(St, axis, x, y), "_on_canvas_click", <<axis, x, y>>)

\* the event matplotlib builds for a cursor at the data point pos of
\* canvas[k]: the cursor is over the axes iff pos lies within their limits
EventAt(k, button, dblclick, pos) ==
    LET c == viewer.canvas[k]
    IN  MouseEvent(/\ FracLeq(c.ax_xlim[1], pos[1]) /\ FracLeq(pos[1], c.ax_xlim[2])
                   /\ FracLeq(c.ax_ylim[1], pos[2]) /\ FracLeq(pos[2], c.ax_ylim[2]),
                   button, dblclick, pos[1], pos[2])

\* button_press_event on canvas[k]
CanvasPress(k, button, dblclick, pos) ==
    /\ k \in 1..3
    /\ CommitArgs(_on_click(St, k, EventAt(k, button, dblclick, pos)),
                  "_on_click", <<k, button, dblclick, pos>>)

\* scroll_event on canvas[k], button "up" or "down"
CanvasScroll(k, button, pos) ==
    /\ k \in 1..3
    /\ CommitArgs([St EXCEPT !.viewer.canvas[k] =
                                _on_scroll(@, EventAt(k, button, FALSE, pos))],
                  "_on_scroll", <<k, button, pos>>)

\* motion_notify_event on canvas[k]
CanvasMotion(k, pos) ==
    /\ k \in 1..3
    /\ CommitArgs([St EXCEPT !.viewer.canvas[k] =
                                _on_motion(@, EventAt(k, 0, FALSE, pos))],
                  "_on_motion", <<k, pos>>)

\* button_release_event on canvas[k]
CanvasRelease(k, button, pos) ==
    /\ k \in 1..3
    /\ CommitArgs([St EXCEPT !.viewer.canvas[k] =
                                _on_release(@, EventAt(k, button, FALSE, pos))],
                  "_on_release", <<k, button, pos>>)

\* time.time() when the main window is shown, in milliseconds
StartTime == 1000000

\* delays between two left-button presses, in milliseconds
GapInputs == {100, 299, 300, 500}

\* the left mouse button is pressed on the primary 3D surface, gap
\* milliseconds after the previous press (after the start for the first one)
LeftButtonPress(gap) ==
    /\ MainWindow
    /\ LET current_time == IF presses = <<>> THEN StartTime + gap
                           ELSE presses[Len(presses)] + gap
       IN  CommitArgs(on_left_button_press(St, current_time), "on_left_button_press",
                      <<current_time>>)

\* variant: ESC toggles whatever the mode
keyPressEvent_always(s) == toggle_fullscreen(s)

\* VolumeWidget.keyPressEvent for Qt.Key_Escape
keyPressEvent(s) == IF s.vw.is_fullscreen THEN toggle_fullscreen(s) ELSE s

\* on_key, the KeyPressEvent observer of the fullscreen interactor, for 'Escape'
on_key(s) == toggle_fullscreen(s)

\* ESC with the focus in the 3D widget of the main window
KeyPressEscape ==
    /\ MainWindow
    /\ Commit(keyPressEvent(St), "keyPressEvent")

\* ESC with the focus in the fullscreen surface
FsKeyPressEscape ==
    /\ fs_plotter # None
    /\ Commit(on_key(St), "on_key")

\* double click on the 3D surface, the exit button or ESC in fullscreen
ToggleFullscreen ==
    /\ MainWindow
    /\ Commit(toggle_fullscreen(St), "toggle_fullscreen")

\* camera transforms the user reaches by dragging in a 3D surface
UserViews == {"rotated"}

\* the user rotates / zooms the primary 3D surface with the mouse
CameraMoved(view) ==
    /\ view \in UserViews
    /\ plotter.camera # [view |-> view, fit |-> None]
    /\ Commit([St EXCEPT !.plotter.camera = [view |-> view, fit |-> None]], "camera_moved")

\* the user rotates / zooms the fullscreen 3D surface with the mouse
FsCameraMoved(view) ==
    /\ vw.is_fullscreen
    /\ view \in UserViews
    /\ Val(fs_plotter).camera # [view |-> view, fit |-> None]
    /\ Commit([St EXCEPT !.fs_plotter = Some([Val(@) EXCEPT !.camera =
                                                 [view |-> view, fit |-> None]])],
              "fs_camera_moved")

----------------------------------------------------------------------------
(* Events of the fullscreen control panel                                   *)

FsClimMinSliderMoved(v) ==
    /\ vw.is_fullscreen
    /\ v \in 0..CLIM_SLIDER_MAX /\ v # Val(vw.fs_clim_min_slider)
    /\ Commit([St EXCEPT !.vw.fs_clim_min_slider = Some(v)], "fs_clim_slider_moved")

FsClimMaxSliderMoved(v) ==
    /\ vw.is_fullscreen
    /\ v \in 0..CLIM_SLIDER_MAX /\ v # Val(vw.fs_clim_max_slider)
    /\ Commit([St EXCEPT !.vw.fs_clim_max_slider = Some(v)], "fs_clim_slider_moved")

FsClimSliderReleased ==
    /\ vw.is_fullscreen
    /\ Commit(_fs_on_clim_changed(St), "_fs_on_clim_changed")

FsPresetChanged(preset) ==
    /\ vw.is_fullscreen
    /\ preset \in DOMAIN WINDOW_PRESETS /\ preset # Val(vw.fs_preset_combo)
    /\ Commit(_fs_on_preset_changed([St EXCEPT !.vw.fs_preset_combo = Some(preset)], preset),
              "_fs_on_preset_changed")

FsColormapChanged(cmap) ==
    /\ vw.is_fullscreen
    /\ cmap \in SeqToSet(COLORMAPS) /\ cmap # Val(vw.fs_cmap_combo)
    /\ Commit(_fs_on_colormap_changed([St EXCEPT !.vw.fs_cmap_combo = Some(cmap)], cmap),
              "_fs_on_colormap_changed")

FsOpacityChanged(preset) ==
    /\ vw.is_fullscreen
    /\ preset \in DOMAIN OPACITY_PRESETS /\ preset # Val(vw.fs_opacity_combo)
    /\ Commit(_fs_on_opacity_changed([St EXCEPT !.vw.fs_opacity_combo = Some(preset)], preset),
              "_fs_on_opacity_changed")

FsShadeChanged ==
    /\ vw.is_fullscreen
    /\ LET checked == ~Val(vw.fs_shade_checkbox)
       IN  Commit(_fs_on_shade_changed([St EXCEPT !.vw.fs_shade_checkbox = Some(checked)],
                                       checked),
                  "_fs_on_shade_changed")

FsSegOpacitySliderMoved(v) ==
    /\ vw.is_fullscreen
    /\ v \in 0..PCT_SLIDER_MAX /\ v # Val(vw.fs_seg_opacity_slider)
    /\ Commit([St EXCEPT !.vw.fs_seg_opacity_slider = Some(v)], "fs_seg_opacity_slider_moved")

FsSegOpacitySliderReleased ==
    /\ vw.is_fullscreen
    /\ Commit(_fs_on_seg_opacity_changed(St), "_fs_on_seg_opacity_changed")

FsSegAlwaysVisibleChanged ==
    /\ vw.is_fullscreen
    /\ LET checked == ~Val(vw.fs_seg_always_visible_checkbox)
       IN  Commit(_fs_on_seg_always_visible_changed(
                      [St EXCEPT !.vw.fs_seg_always_visible_checkbox = Some(checked)], checked),
                  "_fs_on_seg_always_visible_changed")

FsBgSliderMoved(v) ==
    /\ vw.is_fullscreen
    /\ v \in 0..PCT_SLIDER_MAX /\ v # Val(vw.fs_bg_slider)
    /\ Commit([St EXCEPT !.vw.fs_bg_slider = Some(v)], "fs_bg_slider_moved")

FsBgSliderReleased ==
    /\ vw.is_fullscreen
    /\ Commit(_fs_on_bg_changed(St), "_fs_on_bg_changed")

FsModalityChanged(m) ==
    /\ vw.is_fullscreen
    /\ m \in SeqToSet(Val(vw.fs_modality_combo).items)
    /\ m # Val(vw.fs_modality_combo).text
    /\ Commit(_fs_on_modality_changed(
                  [St EXCEPT !.vw.fs_modality_combo = Some([Val(@) EXCEPT !.text = m])], m),
              "_fs_on_modality_changed")

FsResetCamera ==
    /\ vw.is_fullscreen
    /\ Commit(_fs_reset_camera(St), "_fs_reset_camera")

FsPrevPatient ==
    /\ vw.is_fullscreen
    /\ Commit(_fs_prev_patient(St), "_fs_prev_patient")

FsNextPatient ==
    /\ vw.is_fullscreen
    /\ Commit(_fs_next_patient(St), "_fs_next_patient")

----------------------------------------------------------------------------
(* Specifications                                                           *)

\* window-level: patient and modality changes, contrast sliders and presets,
\* on the primary panel and in fullscreen
NextWL ==
    \/ \E i \in 1..Len(PatientDirs) : BrowsePatient(i)
    \/ PrevPatient
    \/ NextPatient
    \/ \E m \in SeqToSet(MODALITY_ORDER) : ModalityChanged(m)
    \/ \E v \in PctInputs : ClimMinSliderMoved(v)
    \/ \E v \in PctInputs : ClimMaxSliderMoved(v)
    \/ ClimSliderReleased
    \/ \E p \in PresetInputs : WindowPresetChanged(p)
    \/ ToggleFullscreen
    \/ \E v \in PctInputs : FsClimMinSliderMoved(v)
    \/ \E v \in PctInputs : FsClimMaxSliderMoved(v)
    \/ FsClimSliderReleased
    \/ \E p \in PresetInputs : FsPresetChanged(p)
    \/ \E m \in SeqToSet(MODALITY_ORDER) : FsModalityChanged(m)
    \/ FsPrevPatient
    \/ FsNextPatient

\* every sequence of at most MaxSteps of these events
SpecWL == Init /\ [][NextWL]_vars

\* the primary panel alone, event sequences of any length
NextPrimaryWL ==
    \/ \E i \in 1..Len(PatientDirs) : BrowsePatient(i)
    \/ PrevPatient
    \/ NextPatient
    \/ \E m \in SeqToSet(MODALITY_ORDER) : ModalityChanged(m)
    \/ \E v \in PctInputs : ClimMinSliderMoved(v)
    \/ \E v \in PctInputs : ClimMaxSliderMoved(v)
    \/ ClimSliderReleased
    \/ \E p \in PresetInputs : WindowPresetChanged(p)

SpecPrimaryWL == InitUnlimited /\ [][NextPrimaryWL]_vars

----------------------------------------------------------------------------
(* Window-level properties                                                  *)

\* C1: a modality switch made in fullscreen to a modality with a non-empty
\* data range leaves both fullscreen contrast sliders where they were, and
\* sets clim_min / clim_max to those percentages applied to the data_min /
\* data_max of the new modality, which is what the fullscreen surface renders.
C1_FsModalityKeepsPercentages ==
    [][ (/\ ev' = "_fs_on_modality_changed"
         /\ vw'.is_fullscreen
         /\ viewer'.current_modality = Val(vw'.fs_modality_combo).text
         /\ viewer'.current_modality \in DOMAIN viewer'.modalities
         /\ vw'.data_max > vw'.data_min)
        =>
        LET new == viewer'.modalities[viewer'.current_modality].data
            min_pct == Val(vw.fs_clim_min_slider)
            max_pct == Val(vw.fs_clim_max_slider)
        IN  /\ vw'.fs_clim_min_slider = vw.fs_clim_min_slider
            /\ vw'.fs_clim_max_slider = vw.fs_clim_max_slider
            /\ vw'.data_min = new.min /\ vw'.data_max = new.max
            /\ vw'.clim_min = 1000 * new.min + min_pct * (new.max - new.min)
            /\ vw'.clim_max = 1000 * new.min + max_pct * (new.max - new.min)
            /\ Val(fs_plotter').volume # None =>
                   Val(Val(fs_plotter').volume).clim = <<vw'.clim_min, vw'.clim_max>>
      ]_vars

\* a fullscreen switch to the flair volume (range -5..15) while the sliders
\* are held at (500, 1000)
C1_Witness ==
    /\ ev = "_fs_on_modality_changed"
    /\ vw.is_fullscreen
    /\ viewer.current_modality = "flair"
    /\ vw.fs_clim_min_slider = Some(500)
    /\ vw.fs_clim_max_slider = Some(1000)
    /\ vw.clim_min = 5000 /\ vw.clim_max = 15000

\* C2: a modality switch on the primary panel leaves both primary contrast
\* sliders unchanged and, when the new data range is not empty, ends with
\* clim (and the clim of the rendered volume) equal to the slider
\* percentages applied to the new modality's data_min / data_max.
C2_PrimaryModalityKeepsPercentages ==
    [][ (/\ ev' = "_on_modality_changed"
         /\ viewer'.current_modality = viewer'.modality_combo.text
         /\ viewer'.current_modality \in DOMAIN viewer'.modalities)
        =>
        LET new == viewer'.modalities[viewer'.current_modality].data
        IN  /\ viewer'.clim_min_slider = viewer.clim_min_slider
            /\ viewer'.clim_max_slider = viewer.clim_max_slider
            /\ vw'.data_min = new.min /\ vw'.data_max = new.max
            /\ new.max > new.min =>
                 /\ vw'.clim_min = 1000 * new.min + viewer.clim_min_slider * (new.max - new.min)
                 /\ vw'.clim_max = 1000 * new.min + viewer.clim_max_slider * (new.max - new.min)
                 /\ plotter'.volume # None =>
                        Val(plotter'.volume).clim = <<vw'.clim_min, vw'.clim_max>>
      ]_vars

\* a primary switch to the flair volume with the sliders held at (500, 1000)
C2_Witness ==
    /\ ev = "_on_modality_changed"
    /\ viewer.current_modality = "flair"
    /\ viewer.clim_min_slider = 500 /\ viewer.clim_max_slider = 1000
    /\ plotter.volume # None
    /\ Val(plotter.volume).clim = <<5000, 15000>>

\* C3: after a contrast slider release (primary or fullscreen) with
\* min_pct >= max_pct on a volume with data_max > data_min, the bounds
\* applied to the renderer are lo < hi with hi = lo + 0.01 * data_range.
C3_ReleaseWidensMax ==
    LET range == vw.data_max - vw.data_min
    IN  /\ (/\ ev = "_on_clim_changed"
            /\ vw.current_data # None /\ range > 0
            /\ viewer.clim_min_slider >= viewer.clim_max_slider)
           => /\ vw.clim_min = PctToClim(vw.data_min, vw.data_max, viewer.clim_min_slider)
              /\ vw.clim_min < vw.clim_max
              /\ vw.clim_max = vw.clim_min + 10 * range
              /\ plotter.volume # None =>
                     Val(plotter.volume).clim = <<vw.clim_min, vw.clim_max>>
        /\ (/\ ev = "_fs_on_clim_changed"
            /\ vw.current_data # None /\ range > 0
            /\ Val(vw.fs_clim_min_slider) >= Val(vw.fs_clim_max_slider))
           => /\ vw.clim_min = PctToClim(vw.data_min, vw.data_max, Val(vw.fs_clim_min_slider))
              /\ vw.clim_min < vw.clim_max
              /\ vw.clim_max = vw.clim_min + 10 * range
              /\ Val(fs_plotter).volume # None =>
                     Val(Val(fs_plotter).volume).clim = <<vw.clim_min, vw.clim_max>>

\* a fullscreen release at (1000, 1000) on a rendered volume
C3_Witness ==
    /\ ev = "_fs_on_clim_changed"
    /\ vw.fs_clim_min_slider = Some(1000) /\ vw.fs_clim_max_slider = Some(1000)
    /\ vw.data_max > vw.data_min
    /\ Val(fs_plotter).volume # None

\* C4 (as claimed): on a constant volume (data_max = data_min) a slider
\* release or a preset, primary or fullscreen, yields clim_min < clim_max.
C4_ConstantVolumeNonEmptyWindow ==
    (/\ ev \in {"_on_clim_changed", "_on_window_preset_changed",
                "_fs_on_clim_changed", "_fs_on_preset_changed"}
     /\ vw.current_data # None
     /\ vw.data_max = vw.data_min)
    => vw.clim_min < vw.clim_max

\* C5 (as claimed): whenever a surface shows a volume with data_max > data_min,
\* the clim it was rendered with satisfies clim_min < clim_max.
C5_RenderedWindowNonEmpty ==
    (vw.current_data # None /\ vw.data_max > vw.data_min)
    => /\ plotter.volume # None =>
              Val(plotter.volume).clim[1] < Val(plotter.volume).clim[2]
       /\ (fs_plotter # None /\ Val(fs_plotter).volume # None) =>
              Val(Val(fs_plotter).volume).clim[1] < Val(Val(fs_plotter).volume).clim[2]

\* C6 (as claimed): after a slider release the stored percentages satisfy
\* min_pct < max_pct.
C6_StoredPercentagesOrdered ==
    /\ ev = "_on_clim_changed" => viewer.clim_min_slider < viewer.clim_max_slider
    /\ ev = "_fs_on_clim_changed" =>
           Val(vw.fs_clim_min_slider) < Val(vw.fs_clim_max_slider)

----------------------------------------------------------------------------
(* Slice navigation                                                         *)

NextNav ==
    \/ \E i \in 1..Len(PatientDirs) : BrowsePatient(i)
    \/ PrevPatient
    \/ NextPatient
    \/ \E m \in SeqToSet(MODALITY_ORDER) : ModalityChanged(m)
    \/ \E axis \in 0..2, v \in SliceInputs : SliceSliderMoved(axis, v)
    \/ \E axis \in 0..2, x \in ClickInputs, y \in ClickInputs : CanvasClick(axis, x, y)

SpecNav == InitUnlimited /\ [][NextNav]_vars

\* C7: with a modality loaded, a left click at pixel (x, y) sets, on the
\* axial view (axis 2), sagittal = clamp(x, 0, dimX-1) and coronal =
\* clamp(y, 0, dimY-1); on the coronal view (axis 1), sagittal from x and
\* axial from y; on the sagittal view (axis 0), coronal from x and axial
\* from y.  The index of the clicked view is unchanged, every index stays
\* inside the volume, the sliders show the indices, and dimX, dimY, dimZ are
\* the dimensions of the loaded modality.
C7_ClickNavigates ==
    [][ (ev' = "_on_canvas_click" /\ viewer.current_modality # NoModality)
        =>
        LET axis == args'[1]
            x    == args'[2]
            y    == args'[3]
            dim  == viewer.max_slices
            old  == viewer.slice_indices
            clamp(c, n) == IF c < 0 THEN 0 ELSE IF c > n - 1 THEN n - 1 ELSE c
            new  == CASE axis = 2 -> <<clamp(x, dim[1]), clamp(y, dim[2]), old[3]>>
                      [] axis = 1 -> <<clamp(x, dim[1]), old[2], clamp(y, dim[3])>>
                      [] OTHER    -> <<old[1], clamp(x, dim[2]), clamp(y, dim[3])>>
        IN  /\ viewer'.slice_indices = new
            /\ \A k \in 1..3 : /\ viewer'.slice_indices[k] \in 0..(dim[k] - 1)
                                /\ viewer'.slice_slider[k].value = viewer'.slice_indices[k]
            /\ viewer.current_modality \in DOMAIN viewer.modalities =>
                   dim = viewer.modalities[viewer.current_modality].data.shape
      ]_vars

\* a click at (300, -3) on the axial view of a 256^3 volume shown at its
\* middle slices
C7_Witness ==
    /\ ev = "_on_canvas_click"
    /\ args = <<2, 300, -3>>
    /\ viewer.max_slices = <<256, 256, 256>>
    /\ viewer.slice_indices = <<255, 0, 128>>

----------------------------------------------------------------------------
(* Subsampling                                                              *)

Shapes == DimInputs \X DimInputs \X DimInputs

NextSub ==
    \/ \E shape \in Shapes, spacing \in SpacingInputs : OpenVolume(shape, spacing)
    \/ \E m \in {"bravo", "seg"} : ModalityChanged(m)
    \/ ShadeChanged
    \/ ToggleFullscreen
    \/ FsShadeChanged
    \/ \E m \in {"bravo", "seg"} : FsModalityChanged(m)

SpecSub == InitUnlimited /\ [][NextSub]_vars

\* the surfaces that exist and have rendered a volume
RenderedSurfaces ==
    (IF plotter.dims # None THEN {plotter} ELSE {}) \cup
    (IF fs_plotter # None /\ Val(fs_plotter).dims # None THEN {Val(fs_plotter)} ELSE {})

\* C8: on the primary and on the fullscreen surface the grid is built with
\* stride 2 iff the volume has more than 10,000,000 voxels, else stride 1
\* (exactly 10,000,000 gives stride 1); the grid keeps every stride-th sample
\* of each axis, each spacing component is multiplied by the stride, and the
\* overlay grid has the same dimensions and spacing.  256^3 becomes 128^3
\* with doubled spacing and 64^3 is unchanged.
C8_SubsamplingRule ==
    \A p \in RenderedSurfaces :
        LET shape  == Val(vw.current_data).shape
            sp     == vw.current_spacing
            voxels == shape[1] * shape[2] * shape[3]
            stride == IF voxels > 10000000 THEN 2 ELSE 1
            kept   == [k \in 1..3 |-> Cardinality({i \in 0..(shape[k] - 1) : i % stride = 0})]
            scaled == [k \in 1..3 |-> sp[k] * stride]
        IN  /\ Val(p.dims) = kept
            /\ Val(p.spacing) = scaled
            /\ p.seg_grid # None => Val(p.seg_grid) = <<kept, scaled>>
            /\ voxels = 10000000 => Val(p.dims) = shape /\ Val(p.spacing) = sp
            /\ shape = <<256, 256, 256>> =>
                   /\ Val(p.dims) = <<128, 128, 128>>
                   /\ Val(p.spacing) = <<2 * sp[1], 2 * sp[2], 2 * sp[3]>>
            /\ shape = <<64, 64, 64>> => Val(p.dims) = shape /\ Val(p.spacing) = sp

\* a 256^3 volume with its overlay on both surfaces
C8_Witness ==
    /\ vw.current_data # None
    /\ Val(vw.current_data).shape = <<256, 256, 256>>
    /\ vw.is_fullscreen
    /\ plotter.seg_grid # None
    /\ Val(fs_plotter).seg_grid = Some(<<(<<128, 128, 128>>), (<<10, 14, 24>>)>>)

\* C9 (as claimed): on every rendered surface and every axis,
\* dim_after * spacing_after = dim_before * spacing_before.
C9_ExtentPreserved ==
    \A p \in RenderedSurfaces : \A k \in 1..3 :
        Val(p.dims)[k] * Val(p.spacing)[k]
            = Val(vw.current_data).shape[k] * vw.current_spacing[k]

\* C9 (amended): dim_after * spacing_after = dim_before * spacing_before on
\* every axis of a volume rendered at stride 1 and on every even axis of a
\* volume rendered at stride 2; on an odd axis at stride 2 the product is
\* (dim_before + 1) * spacing_before, one input voxel more.
C9_ExtentPreservedOnEvenAxes ==
    \A p \in RenderedSurfaces : \A k \in 1..3 :
        LET shape  == Val(vw.current_data).shape
            before == shape[k] * vw.current_spacing[k]
            after  == Val(p.dims)[k] * Val(p.spacing)[k]
            strided == shape[1] * shape[2] * shape[3] > 10000000
        IN  IF strided /\ shape[k] % 2 = 1
            THEN after = before + vw.current_spacing[k]
            ELSE after = before

\* a volume over the threshold with an odd first axis, on both surfaces
C9_Witness ==
    /\ vw.current_data # None
    /\ Val(vw.current_data).shape = <<257, 256, 250>>
    /\ plotter.dims = Some(<<129, 128, 125>>)
    /\ fs_plotter # None
    /\ Val(fs_plotter).dims = Some(<<129, 128, 125>>)

----------------------------------------------------------------------------
(* Overlay compositing                                                      *)

NextOverlay ==
    \/ \E i \in 1..Len(PatientDirs) : BrowsePatient(i)
    \/ \E m \in SeqToSet(MODALITY_ORDER) : ModalityChanged(m)
    \/ SegAlwaysVisibleChanged
    \/ \E v \in SegOpacityInputs : SegOpacitySliderMoved(v)
    \/ SegOpacitySliderReleased
    \/ ToggleFullscreen
    \/ FsSegAlwaysVisibleChanged
    \/ \E v \in SegOpacityInputs : FsSegOpacitySliderMoved(v)
    \/ FsSegOpacitySliderReleased
    \/ \E m \in SeqToSet(MODALITY_ORDER) : FsModalityChanged(m)

\* length of the explored event sequences
MaxOverlaySteps == 6

InitOverlay == Constructed /\ budget = MaxOverlaySteps

SpecOverlay == InitOverlay /\ [][NextOverlay]_vars

----------------------------------------------------------------------------
(* Fullscreen mirror: parameters changed on the fullscreen panel            *)

\* the values the fullscreen controls are set to
MirrorColormaps == {"bone"}
MirrorOpacityPresets == {"strong"}
MirrorPctInputs == {235, 500}
MirrorSegOpacityInputs == {29, 50}
MirrorBgInputs == {57, 80}

NextMirror ==
    \/ BrowsePatient(1)
    \/ ToggleFullscreen
    \/ \E c \in MirrorColormaps : FsColormapChanged(c)
    \/ \E p \in MirrorOpacityPresets : FsOpacityChanged(p)
    \/ FsShadeChanged
    \/ \E v \in MirrorSegOpacityInputs : FsSegOpacitySliderMoved(v)
    \/ FsSegOpacitySliderReleased
    \/ FsSegAlwaysVisibleChanged
    \/ \E v \in MirrorBgInputs : FsBgSliderMoved(v)
    \/ FsBgSliderReleased
    \/ \E v \in MirrorPctInputs : FsClimMinSliderMoved(v)
    \/ \E v \in MirrorPctInputs : FsClimMaxSliderMoved(v)
    \/ FsClimSliderReleased

\* length of the explored event sequences of the mirror
MaxMirrorSteps == 6

InitMirror == Constructed /\ budget = MaxMirrorSteps

SpecMirror == InitMirror /\ [][NextMirror]_vars

\* the step that leaves fullscreen
ExitsFullscreen == ev' = "toggle_fullscreen" /\ vw.is_fullscreen

\* C11: every parameter handler of the fullscreen panel stores the value of
\* its control in the renderer parameters (colormap, opacity preset, shading,
\* overlay opacity, always-visible flag, background, and the contrast window
\* as the slider percentages applied to the data range); the step that leaves
\* fullscreen keeps these parameters, and the primary surface then has the
\* background and, for a loaded volume, the colormap, opacity preset, shading,
\* contrast window and overlay opacity of the parameters, with the colormap,
\* opacity preset, shading and always-visible flag being those selected on
\* the fullscreen panel at the moment of exit.
C11_FullscreenWriteBack ==
    [][ /\ ev' = "_fs_on_colormap_changed" => vw'.colormap = Val(vw'.fs_cmap_combo)
        /\ ev' = "_fs_on_opacity_changed" => vw'.opacity_preset = Val(vw'.fs_opacity_combo)
        /\ ev' = "_fs_on_shade_changed" => vw'.shade_enabled = Val(vw'.fs_shade_checkbox)
        /\ ev' = "_fs_on_seg_opacity_changed"
               => vw'.seg_opacity = Val(vw'.fs_seg_opacity_slider)
        /\ ev' = "_fs_on_seg_always_visible_changed"
               => vw'.seg_always_visible = Val(vw'.fs_seg_always_visible_checkbox)
        /\ ev' = "_fs_on_bg_changed" => vw'.bg_color = Val(vw'.fs_bg_slider)
        /\ ev' = "_fs_on_clim_changed"
               => LET lo == PctToClim(vw.data_min, vw.data_max, Val(vw.fs_clim_min_slider))
                      hi == PctToClim(vw.data_min, vw.data_max, Val(vw.fs_clim_max_slider))
                  IN  /\ vw'.clim_min = lo
                      /\ lo < hi => vw'.clim_max = hi
        /\ ExitsFullscreen
               => /\ ~vw'.is_fullscreen
                  /\ fs_plotter' = None
                  /\ vw'.colormap = vw.colormap /\ vw.colormap = Val(vw.fs_cmap_combo)
                  /\ vw'.opacity_preset = vw.opacity_preset
                  /\ vw.opacity_preset = Val(vw.fs_opacity_combo)
                  /\ vw'.shade_enabled = vw.shade_enabled
                  /\ vw.shade_enabled = Val(vw.fs_shade_checkbox)
                  /\ vw'.seg_always_visible = vw.seg_always_visible
                  /\ vw.seg_always_visible = Val(vw.fs_seg_always_visible_checkbox)
                  /\ vw'.seg_opacity = vw.seg_opacity
                  /\ vw'.bg_color = vw.bg_color
                  /\ vw'.clim_min = vw.clim_min /\ vw'.clim_max = vw.clim_max
                  /\ plotter'.background = vw.bg_color
                  /\ vw.current_data # None /\ ~vw.is_segmentation
                         => /\ plotter'.volume # None
                            /\ Val(plotter'.volume).cmap = vw.colormap
                            /\ Val(plotter'.volume).opacity = OPACITY_PRESETS[vw.opacity_preset]
                            /\ Val(plotter'.volume).shade = vw.shade_enabled
                            /\ Val(plotter'.volume).clim = <<vw.clim_min, vw.clim_max>>
                            /\ plotter'.mesh # None
                                   => Val(plotter'.mesh).opacity = vw.seg_opacity
                            /\ vw.current_seg_overlay # None
                                   => (plotter'.mesh = None) = vw.seg_always_visible
      ]_vars

\* fullscreen was left with the colormap "bone" and the background 0.8 chosen
\* there: the primary scene shows both
C11_Witness ==
    /\ ev = "toggle_fullscreen" /\ ~vw.is_fullscreen
    /\ vw.current_data # None
    /\ vw.colormap = "bone" /\ vw.bg_color = 80
    /\ plotter.background = 80
    /\ plotter.volume # None /\ Val(plotter.volume).cmap = "bone"
    /\ Val(plotter.volume).text_color = "black"

\* C12: every step that leaves fullscreen discards the mirror surface and
\* leaves every primary control equal to the final parameter value: the
\* colormap combo, the opacity-preset combo, the shading checkbox, the
\* seg-opacity slider, the always-visible checkbox and the background slider
\* show the renderer parameters, and the two contrast sliders show the
\* percentages the fullscreen sliders held at exit.
C12_ExitReconcilesControls ==
    [][ ExitsFullscreen
            => /\ fs_plotter' = None
               /\ viewer'.colormap_combo = vw'.colormap
               /\ viewer'.opacity_combo = vw'.opacity_preset
               /\ viewer'.shade_checkbox = vw'.shade_enabled
               /\ viewer'.clim_min_slider = Val(vw.fs_clim_min_slider)
               /\ viewer'.clim_max_slider = Val(vw.fs_clim_max_slider)
               /\ viewer'.seg_opacity_slider = vw'.seg_opacity
               /\ viewer'.seg_always_visible_checkbox = vw'.seg_always_visible
               /\ viewer'.bg_slider = vw'.bg_color
      ]_vars

----------------------------------------------------------------------------
(* Double-click detection on the primary 3D surface                         *)

NextClicks ==
    \/ \E gap \in GapInputs : LeftButtonPress(gap)
    \/ BrowsePatient(1)
    \/ ToggleFullscreen

\* length of the explored press sequences
MaxClickSteps == 5

InitClicks == Constructed /\ budget = MaxClickSteps

SpecClicks == InitClicks /\ [][NextClicks]_vars

\* C13: a left-button press on the 3D surface toggles fullscreen exactly when
\* it completes a pair, the presses being paired greedily from the first one
\* and two consecutive presses forming a pair when they are less than
\* DOUBLE_CLICK_TIMEOUT apart; a press that completes no pair toggles nothing.
\* The number of toggles made by presses is therefore the number of such
\* disjoint pairs: one for two or three rapid presses, two for four, none for
\* presses 0.5 s apart.
C13_DoubleClickToggles ==
    [][ ev' = "on_left_button_press"
            => LET RECURSIVE Pairs(_)
                   Pairs(ts) ==
                       IF Len(ts) < 2 THEN 0
                       ELSE IF ts[2] - ts[1] < 300
                            THEN 1 + Pairs(SubSeq(ts, 3, Len(ts)))
                            ELSE Pairs(Tail(ts))
               IN  /\ presses' = Append(presses, args'[1])
                   /\ (vw'.is_fullscreen # vw.is_fullscreen)
                          = (Pairs(presses') = Pairs(presses) + 1)
                   /\ Pairs(presses') \in {Pairs(presses), Pairs(presses) + 1}
                   /\ vw'.is_fullscreen = vw.is_fullscreen
                          => /\ fs_plotter' = fs_plotter
                             /\ plotter' = plotter
      ]_vars

\* four rapid presses: fullscreen was entered by the second and left by the
\* fourth
C13_Witness ==
    /\ ev = "on_left_button_press"
    /\ presses = <<StartTime + 100, StartTime + 200, StartTime + 300, StartTime + 400>>
    /\ ~vw.is_fullscreen
    /\ vw.current_data # None

----------------------------------------------------------------------------
(* Patient navigation from the fullscreen panel                             *)

\* C14: after "< Prev" / "Next >" on the fullscreen panel the fullscreen
\* patient label is the label of the patient now current, the fullscreen
\* modality combo lists that patient's modalities (in display order) with
\* the active modality selected, both fullscreen contrast sliders are where
\* they were, and, when the data range is non-empty, clim_min / clim_max are
\* those percentages applied to data_min / data_max.
C14_FsNavigationRefreshesPanel ==
    [][ ev' \in {"_fs_prev_patient", "_fs_next_patient"} /\ vw.callbacks
            => LET new_patient ==
                       DirContents(viewer'.patient_list[viewer'.current_patient_idx + 1])
               IN  /\ Val(vw'.fs_patient_label) = viewer'.path_label
                   /\ Val(vw'.fs_modality_combo).items = SortedModalities(DOMAIN new_patient)
                   /\ Val(vw'.fs_modality_combo).text = viewer'.current_modality
                   /\ vw'.fs_clim_min_slider = vw.fs_clim_min_slider
                   /\ vw'.fs_clim_max_slider = vw.fs_clim_max_slider
                   /\ vw'.data_max > vw'.data_min
                          => /\ vw'.clim_min = PctToClim(vw'.data_min, vw'.data_max,
                                                         Val(vw.fs_clim_min_slider))
                             /\ vw'.clim_max = PctToClim(vw'.data_min, vw'.data_max,
                                                         Val(vw.fs_clim_max_slider))
      ]_vars

----------------------------------------------------------------------------
(* The segmentation as active modality                                      *)

\* C15: whenever the active modality is the segmentation, the segmentation
\* is attached as overlay to no view: the 3D renderer holds no overlay
\* volume, neither 3D scene that shows the segmentation has an overlay
\* mesh, overlay grid or extra pass, and none of the three 2D canvases has
\* overlay data or shows an overlay.
C15_NoSelfOverlay ==
    IsSegName(viewer.current_modality)
        => /\ vw.is_segmentation => vw.current_seg_overlay = None
           /\ \A p \in {plotter} \cup (IF fs_plotter = None THEN {} ELSE {Val(fs_plotter)}) :
                  (p.mesh # None /\ Val(p.mesh).source = "data")
                      => p.seg_grid = None /\ p.extra = 0
           /\ \A i \in 1..3 : /\ viewer.canvas[i].overlay_data = None
                              /\ ~viewer.canvas[i].show_overlay

----------------------------------------------------------------------------
(* Overlay opacity                                                          *)

\* positions of the overlay opacity sliders: the ends, the floor of the
\* always-visible mode, one value below it and one above
OpacityLawInputs == {0, 5, 10, 50, 100}

NextOpacity ==
    \/ BrowsePatient(1)
    \/ \E v \in OpacityLawInputs : SegOpacitySliderMoved(v)
    \/ SegOpacitySliderReleased
    \/ SegAlwaysVisibleChanged
    \/ ToggleFullscreen
    \/ \E v \in OpacityLawInputs : FsSegOpacitySliderMoved(v)
    \/ FsSegOpacitySliderReleased
    \/ FsSegAlwaysVisibleChanged

SpecOpacity == InitUnlimited /\ [][NextOpacity]_vars

----------------------------------------------------------------------------
(* Camera                                                                   *)

\* each parameter control is set to one value other than its initial one

NextCamera ==
    \/ BrowsePatient(1)
    \/ PrevPatient
    \/ NextPatient
    \/ \E m \in SeqToSet(MODALITY_ORDER) : ModalityChanged(m)
    \/ \E v \in UserViews : CameraMoved(v)
    \/ ClimSliderReleased
    \/ WindowPresetChanged("Bone")
    \/ ColormapChanged("bone")
    \/ OpacityPresetChanged("strong")
    \/ ShadeChanged
    \/ SegOpacitySliderReleased
    \/ SegAlwaysVisibleChanged
    \/ BgSliderMoved(80)
    \/ BgSliderReleased
    \/ ResetView
    \/ ToggleFullscreen
    \/ \E v \in UserViews : FsCameraMoved(v)
    \/ FsClimSliderReleased
    \/ FsPresetChanged("Bone")
    \/ FsColormapChanged("bone")
    \/ FsOpacityChanged("strong")
    \/ FsShadeChanged
    \/ FsSegOpacitySliderReleased
    \/ FsSegAlwaysVisibleChanged
    \/ FsBgSliderMoved(80)
    \/ FsBgSliderReleased
    \/ \E m \in SeqToSet(MODALITY_ORDER) : FsModalityChanged(m)
    \/ FsResetCamera
    \/ FsPrevPatient
    \/ FsNextPatient

\* length of the explored event sequences
MaxCameraSteps == 4

InitCamera == Constructed /\ budget = MaxCameraSteps

SpecCamera == InitCamera /\ [][NextCamera]_vars

\* handlers of the single-parameter controls and of the modality selector
\* of the main window
ParameterHandlers ==
    { "_on_clim_changed", "_on_window_preset_changed", "_on_colormap_changed",
      "_on_opacity_preset_changed", "_on_shade_changed", "_on_seg_opacity_changed",
      "_on_seg_always_visible_changed", "_on_bg_label_update", "_on_bg_changed",
      "_on_modality_changed" }

\* handlers of the same controls of the fullscreen panel
FsParameterHandlers ==
    { "_fs_on_clim_changed", "_fs_on_preset_changed", "_fs_on_colormap_changed",
      "_fs_on_opacity_changed", "_fs_on_shade_changed", "_fs_on_seg_opacity_changed",
      "_fs_on_seg_always_visible_changed", "fs_bg_slider_moved", "_fs_on_bg_changed",
      "_fs_on_modality_changed" }

\* C18: a change of one parameter (contrast, colormap, opacity preset,
\* shading, overlay opacity, always-visible flag, background) or a switch of
\* modality leaves the camera of the surface it renders again as it was
\* before the change: the primary surface for the controls of the main
\* window, the fullscreen surface for the controls of the fullscreen panel.
C18_CameraPreserved ==
    [][ /\ ev' \in ParameterHandlers => plotter'.camera = plotter.camera
        /\ ev' \in FsParameterHandlers =>
               /\ fs_plotter' # None
               /\ Val(fs_plotter').camera = Val(fs_plotter).camera ]_vars

\* a fullscreen control re-rendered a loaded volume under a camera the user
\* had moved
C18_Witness ==
    /\ ev = "_fs_on_colormap_changed"
    /\ vw.current_data # None
    /\ Val(fs_plotter).volume # None
    /\ Val(fs_plotter).camera.view \in UserViews

\* handlers that request a camera reset: a patient load (browse, previous,
\* next, from either panel) and "Reset View"
ResetHandlers ==
    { "_browse_patient", "_prev_patient", "_next_patient", "_on_reset_view",
      "_fs_prev_patient", "_fs_next_patient" }

\* the step ran a reset handler that reached its render of a loaded volume
ResetRendered ==
    /\ ev' \in ResetHandlers
    /\ ev' \in {"_prev_patient", "_next_patient", "_fs_prev_patient", "_fs_next_patient"}
           => viewer'.current_patient_idx # viewer.current_patient_idx
    /\ viewer'.current_modality \in DOMAIN viewer'.modalities
    /\ vw'.current_data # None
    /\ plotter'.dims # None

\* orientations that count as the isometric default: the one set by
\* view_isometric() and the one a surface has before anybody moved its camera
IsometricViews == {"default", "isometric"}

\* C19: after a requested reset (patient load by browse / previous / next,
\* "Reset View") the primary camera is fitted to the bounds of the new scene
\* and has the isometric default orientation, whatever the user's camera was;
\* a step of any other handler leaves the primary camera as it was, unless
\* the user moved it.
C19_ResetFitsIsometric ==
    [][ /\ ResetRendered =>
              /\ plotter'.camera.fit = Some(<<Val(plotter'.dims), Val(plotter'.spacing)>>)
              /\ plotter'.camera.view \in IsometricViews
        /\ (ev' \notin ResetHandlers /\ ev' # "camera_moved") =>
              plotter'.camera = plotter.camera ]_vars

\* toggle_fullscreen taking its enter branch
EntersFullscreen == ev' = "toggle_fullscreen" /\ ~vw.is_fullscreen /\ vw'.is_fullscreen

\* two camera transforms are equal: same fit, same orientation
SameCamera(a, b) ==
    /\ a.fit = b.fit
    /\ (a.view \in IsometricViews /\ b.view \in IsometricViews) \/ a.view = b.view

\* C20: the camera belongs to the mirror state: entering fullscreen gives the
\* fullscreen surface a copy of the primary camera, and after exiting
\* fullscreen the primary camera equals the fullscreen camera at the moment
\* of exit.
C20_MirrorCameraWriteBack ==
    [][ /\ EntersFullscreen => SameCamera(Val(fs_plotter').camera, plotter.camera)
        /\ ExitsFullscreen => SameCamera(plotter'.camera, Val(fs_plotter).camera) ]_vars

----------------------------------------------------------------------------
(* Persistence of the render parameters                                     *)

\* handlers of a modality switch and of patient navigation, on both panels
SwitchHandlers ==
    { "_on_modality_changed", "_browse_patient", "_prev_patient", "_next_patient",
      "_fs_on_modality_changed", "_fs_prev_patient", "_fs_next_patient" }

\* the render parameters of a VolumeWidget and the contrast percentages held
\* by the sliders of both panels
RenderParameters(w, v) ==
    << v.colormap, v.opacity_preset, v.shade_enabled, v.seg_opacity,
       v.seg_always_visible, v.bg_color,
       w.clim_min_slider, w.clim_max_slider,
       v.fs_clim_min_slider, v.fs_clim_max_slider >>

----------------------------------------------------------------------------
(* Zoom and pan of the 2D views                                             *)

\* the canvases the mouse is used on: sagittal and axial
ZoomCanvases == {1, 3}

\* cursor positions in data coordinates: (10, 20) and (32.5, 3)
CursorInputs == { << <<10, 1>>, <<20, 1>> >>, << <<65, 2>>, <<3, 1>> >> }

\* button and dblclick of the press events: left, middle, left double-click
PressInputs == { <<1, FALSE>>, <<2, FALSE>>, <<1, TRUE>> }

NextZoom ==
    \/ BrowsePatient(1)
    \/ \E k \in ZoomCanvases, b \in {"up", "down"}, pos \in CursorInputs :
           CanvasScroll(k, b, pos)
    \/ \E k \in ZoomCanvases, b \in PressInputs, pos \in CursorInputs :
           CanvasPress(k, b[1], b[2], pos)
    \/ \E k \in ZoomCanvases, pos \in CursorInputs : CanvasMotion(k, pos)
    \/ \E k \in ZoomCanvases, b \in {1, 2} : CanvasRelease(k, b, << <<10, 1>>, <<20, 1>> >>)
    \/ SliceSliderMoved(0, 7)
    \/ ResetView

\* length of the explored event sequences
MaxZoomSteps == 4

InitZoom == Constructed /\ budget = MaxZoomSteps

SpecZoom == InitZoom /\ [][NextZoom]_vars

----------------------------------------------------------------------------
(* Reset View                                                               *)

NextReset ==
    \/ BrowsePatient(1)
    \/ ModalityChanged("flair")
    \/ SliceSliderMoved(0, 7)
    \/ \E b \in {"up", "down"} : CanvasScroll(3, b, << <<10, 1>>, <<20, 1>> >>)
    \/ \E x \in {-2, 300} : CanvasPress(3, 1, FALSE, << <<x, 1>>, <<20, 1>> >>)
    \/ WindowPresetChanged("Bone")
    \/ ColormapChanged("bone")
    \/ OpacityPresetChanged("strong")
    \/ ShadeChanged
    \/ SegOpacitySliderMoved(50)
    \/ SegOpacitySliderReleased
    \/ SegAlwaysVisibleChanged
    \/ BgSliderMoved(80)
    \/ BgSliderReleased
    \/ CameraMoved("rotated")
    \/ ToggleFullscreen
    \/ ResetView

\* length of the explored event sequences
MaxResetSteps == 4

InitReset == Constructed /\ budget = MaxResetSteps

SpecReset == InitReset /\ [][NextReset]_vars

\* the controls of the main window, the render parameters, the three 2D
\* views and the primary scene are the default ones for the volume data
DefaultView(w, v, p, data) ==
    /\ w.slice_indices = [i \in 1..3 |-> data.shape[i] \div 2]
    /\ \A i \in 1..3 : w.slice_slider[i].value = w.slice_indices[i]
    /\ w.clim_min_slider = 0 /\ w.clim_max_slider = 1000
    /\ v.clim_min = 1000 * data.min /\ v.clim_max = 1000 * data.max
    /\ w.window_preset_combo = "Full Range"
    /\ w.colormap_combo = "gray" /\ v.colormap = "gray"
    /\ w.opacity_combo = "medium" /\ v.opacity_preset = "medium"
    /\ ~w.shade_checkbox /\ ~v.shade_enabled
    /\ w.seg_opacity_slider = 0 /\ v.seg_opacity = 0
    /\ ~w.seg_always_visible_checkbox /\ ~v.seg_always_visible
    /\ p.extra = 0
    /\ w.bg_slider = 0 /\ v.bg_color = 0 /\ p.background = 0
    /\ \A k \in 1..3 :
          /\ w.canvas[k]._xlim = None /\ w.canvas[k]._ylim = None
          /\ w.canvas[k].shown # None
          /\ w.canvas[k].ax_xlim = ImageExtent(Val(w.canvas[k].shown).width)
          /\ w.canvas[k].ax_ylim = ImageExtent(Val(w.canvas[k].shown).height)
    /\ p.volume # None =>
          /\ Val(p.volume).clim = <<1000 * data.min, 1000 * data.max>>
          /\ Val(p.volume).cmap = "gray"
          /\ Val(p.volume).opacity = OPACITY_PRESETS["medium"]
          /\ ~Val(p.volume).shade

\* C22: with a modality loaded, "Reset View" ends in the default state, the
\* controls agreeing with the render parameters: slice indices floor(dim/2),
\* contrast percentages (0, 1000) with clim = (data_min, data_max), window
\* preset "Full Range", colormap gray, opacity preset medium, shading off,
\* overlay opacity 0, always-visible off with no extra pass, background 0,
\* the zoom/pan bounds of the three 2D views cleared, and the camera reset
\* (fitted to the scene, isometric orientation); with no modality loaded it
\* changes nothing.
C22_ResetViewDefaults ==
    [][ ev' = "_on_reset_view" =>
          IF viewer.current_modality \in DOMAIN viewer.modalities
          THEN /\ DefaultView(viewer', vw', plotter',
                              viewer.modalities[viewer.current_modality].data)
               /\ plotter'.camera.fit = Some(<<Val(plotter'.dims), Val(plotter'.spacing)>>)
               /\ plotter'.camera.view \in IsometricViews
          ELSE /\ viewer' = viewer /\ vw' = vw
               /\ plotter' = plotter /\ fs_plotter' = fs_plotter ]_vars

----------------------------------------------------------------------------
(* 2D views: double-click, zoom and pan                                     *)

\* the crosshair positions of the three 2D views
Crosshairs(w) == [k \in 1..3 |-> << w.canvas[k].crosshair_h, w.canvas[k].crosshair_v >>]

----------------------------------------------------------------------------
(* Patient load failure                                                     *)

LoadHandlers == { "_browse_patient", "_prev_patient", "_next_patient",
                  "_fs_prev_patient", "_fs_next_patient" }

\* the step ran _load_patient: "Browse", or Prev / Next moving the index
LoadStep ==
    /\ ev' \in LoadHandlers
    /\ ev' # "_browse_patient" => viewer'.current_patient_idx # viewer.current_patient_idx

\* C24: a patient load ends with exactly the modalities whose files loaded,
\* listed in the modality combo with one of them active; when no file
\* loaded, the store is empty, the failure message is shown, and no volume,
\* modality list, 2D slice or 3D scene of the previous patient remains.
C24_LoadFailureEmptyState ==
    [][ LoadStep =>
          LET loaded == DirContents(viewer'.patient_list[viewer'.current_patient_idx + 1])
          IN  /\ viewer'.modalities = loaded
              /\ IF DOMAIN loaded # {}
                 THEN /\ SeqToSet(viewer'.modality_combo.items) = DOMAIN loaded
                      /\ viewer'.current_modality \in DOMAIN loaded
                      /\ viewer'.path_label # <<"Failed to load any NIfTI files">>
                 ELSE /\ viewer'.path_label = <<"Failed to load any NIfTI files">>
                      /\ viewer'.modality_combo.items = <<>>
                      /\ viewer'.current_modality = NoModality
                      /\ vw'.current_data = None
                      /\ \A k \in 1..3 : viewer'.canvas[k].image_data = None
                      /\ plotter'.volume = None /\ plotter'.mesh = None
                      /\ fs_plotter' # None => Val(fs_plotter').volume = None ]_vars

----------------------------------------------------------------------------
(* Overlay visibility                                                       *)

\* the slice drawn on canvas c carries the masked overlay layer (alpha 0.5)
\* of a segmentation that has positive voxels
OverlayDrawn2D(c) ==
    /\ c.shown # None /\ Val(c.shown).overlay
    /\ c.overlay_data # None /\ Val(c.overlay_data).max > 0

\* the scene of surface p draws the overlay surface with a positive opacity,
\* as a mesh of the scene or as the actor of an extra pass
OverlayDrawn3D(p) ==
    \/ p.mesh # None /\ Val(p.mesh).source = "seg_overlay" /\ Val(p.mesh).opacity > 0
    \/ p.extra > 0 /\ p.extra_opacity # None /\ Val(p.extra_opacity) > 0

\* C25: while the overlay opacity is 0 the segmentation overlay is drawn in
\* no view: not on the three 2D canvases, and not in the 3D scene on display
\* (the fullscreen scene while fullscreen is active, the primary scene
\* otherwise), in blended or in always-visible mode.
C25_OverlayHiddenAtZeroOpacity ==
    vw.seg_opacity = 0 =>
        /\ \A k \in 1..3 : ~OverlayDrawn2D(viewer.canvas[k])
        /\ ~vw.is_fullscreen => ~OverlayDrawn3D(plotter)
        /\ (vw.is_fullscreen /\ fs_plotter # None) => ~OverlayDrawn3D(Val(fs_plotter))

----------------------------------------------------------------------------
(* Ownership of the render parameters while fullscreen is active            *)

\* the render parameters shared by the two surfaces
SharedParameters(v) ==
    << v.colormap, v.opacity_preset, v.shade_enabled, v.clim_min, v.clim_max,
       v.seg_opacity, v.seg_always_visible, v.bg_color >>

\* handlers of the controls of the fullscreen panel
FsControlHandlers ==
    FsParameterHandlers \cup {"_fs_prev_patient", "_fs_next_patient"}

\* handlers of the fullscreen panel that load another volume
FsVolumeHandlers == {"_fs_on_modality_changed", "_fs_prev_patient", "_fs_next_patient"}

\* C26: while fullscreen stays active, a step that changes a shared render
\* parameter (colormap, opacity preset, shading, clim, overlay opacity and
\* flag, background) is a step of a fullscreen control handler, and the clim
\* a fullscreen handler leaves after loading another volume is the one of
\* the fullscreen contrast sliders, not of the primary ones.
C26_FullscreenSoleWriter ==
    [][ (vw.is_fullscreen /\ vw'.is_fullscreen) =>
          /\ SharedParameters(vw') # SharedParameters(vw) => ev' \in FsControlHandlers
          /\ (/\ ev' \in FsVolumeHandlers
              /\ <<vw'.clim_min, vw'.clim_max>> # <<vw.clim_min, vw.clim_max>>) =>
                 /\ vw'.clim_min = PctToClim(vw'.data_min, vw'.data_max,
                                             Val(vw'.fs_clim_min_slider))
                 /\ vw'.clim_max = PctToClim(vw'.data_min, vw'.data_max,
                                             Val(vw'.fs_clim_max_slider)) ]_vars

----------------------------------------------------------------------------
(* Slice indices and crosshairs                                             *)

\* the shape of the active modality's volume
ActiveShape(w) == w.modalities[w.current_modality].data.shape

\* the step loaded a volume into the views: a patient load or a switch of
\* modality that found its volume in the store
VolumeLoaded ==
    /\ \/ LoadStep
       \/ ev' \in {"_on_modality_changed", "_fs_on_modality_changed"}
    /\ viewer'.current_modality \in DOMAIN viewer'.modalities
    /\ viewer'.modalities # viewer.modalities
          \/ viewer'.current_modality # viewer.current_modality
          \/ ev' = "_browse_patient"

\* C27: after every event, with the active modality in the store, each of
\* the three slice indices lies in [0, dim-1] of the active volume along its
\* axis and equals the value of its slider; after an event that loaded a
\* volume (modality switch or patient load) the indices are floor(dim/2).
C27_SliceIndexInvariant ==
    [][ viewer'.current_modality \in DOMAIN viewer'.modalities =>
          /\ \A k \in 1..3 :
                /\ viewer'.slice_indices[k] \in 0..(ActiveShape(viewer')[k] - 1)
                /\ viewer'.slice_slider[k].value = viewer'.slice_indices[k]
          /\ VolumeLoaded =>
                viewer'.slice_indices = [k \in 1..3 |-> ActiveShape(viewer')[k] \div 2] ]_vars

\* a switch from the 256^3 volume, shown at its midpoint 128, to the 64^3
\* volume
C27_Witness ==
    /\ ev = "_on_modality_changed"
    /\ viewer.current_modality = "flair"
    /\ ActiveShape(viewer) = <<64, 64, 64>>
    /\ viewer.slice_indices = <<32, 32, 32>>
    /\ \A k \in 1..3 : viewer.slice_slider[k] = Slider(32, 63)

\* each view's crosshairs are at the other two axes' indices (crosshair_v is
\* the x position of the vertical line, crosshair_h the y position of the
\* horizontal line), and a view that shows a slice shows it with them
CrosshairsSynchronized(w) ==
    LET sag == w.slice_indices[1]
        cor == w.slice_indices[2]
        axi == w.slice_indices[3]
        c   == w.canvas
    IN  /\ c[1].crosshair_v = Some(cor) /\ c[1].crosshair_h = Some(axi)
        /\ c[2].crosshair_v = Some(sag) /\ c[2].crosshair_h = Some(axi)
        /\ c[3].crosshair_v = Some(sag) /\ c[3].crosshair_h = Some(cor)
        /\ \A k \in 1..3 :
              c[k].image_data # None =>
                 /\ c[k].shown # None
                 /\ Val(c[k].shown).slice_idx = w.slice_indices[k]
                 /\ Val(c[k].shown).crosshair_v = c[k].crosshair_v
                 /\ Val(c[k].shown).crosshair_h = c[k].crosshair_h

LimWidth(lim) == FracSub(lim[2], lim[1])
RelPos(x, lim) == FracDiv(FracSub(x, lim[1]), LimWidth(lim))

Translate(lim, delta) == << FracAdd(lim[1], delta), FracAdd(lim[2], delta) >>

\* C30: a view has a drag in progress exactly from a middle-button press
\* inside its axes (an image being shown), which captures the cursor and the
\* current bounds, until the next middle-button release on it; a motion
\* event changes the view only while a drag is in progress and the cursor is
\* inside the axes, and then both bounds are the captured bounds translated
\* by (drag start - cursor), so that width and height are those captured.
C30_DragPan ==
    [][ /\ \A k \in 1..3 :
              viewer'.canvas[k]._pan_start # viewer.canvas[k]._pan_start =>
                 \/ /\ ev' = "_on_release" /\ args'[1] = k /\ args'[2] = 2
                    /\ viewer'.canvas[k]._pan_start = None
                 \/ /\ ev' = "_on_click" /\ args'[1] = k /\ args'[2] = 2 /\ ~args'[3]
                    /\ EventAt(k, 2, FALSE, args'[4]).inaxes
                    /\ viewer.canvas[k].image_data # None
                    /\ viewer'.canvas[k]._pan_start = Some(args'[4])
                    /\ viewer'.canvas[k]._pan_xlim = Some(viewer.canvas[k].ax_xlim)
                    /\ viewer'.canvas[k]._pan_ylim = Some(viewer.canvas[k].ax_ylim)
        /\ (ev' = "_on_release" /\ args'[2] = 2) =>
              viewer'.canvas[args'[1]]._pan_start = None
        /\ ev' = "_on_motion" =>
              LET k   == args'[1]
                  pos == args'[2]
                  c   == viewer.canvas[k]
                  d   == viewer'.canvas[k]
              IN  /\ \A j \in (1..3) \ {k} : viewer'.canvas[j] = viewer.canvas[j]
                  /\ IF c._pan_start # None /\ EventAt(k, 0, FALSE, pos).inaxes
                     THEN /\ d.ax_xlim = Translate(Val(c._pan_xlim),
                                                   FracSub(Val(c._pan_start)[1], pos[1]))
                          /\ d.ax_ylim = Translate(Val(c._pan_ylim),
                                                   FracSub(Val(c._pan_start)[2], pos[2]))
                          /\ LimWidth(d.ax_xlim) = LimWidth(Val(c._pan_xlim))
                          /\ LimWidth(d.ax_ylim) = LimWidth(Val(c._pan_ylim))
                          /\ d._xlim = Some(d.ax_xlim) /\ d._ylim = Some(d.ax_ylim)
                          /\ d._pan_start = c._pan_start
                     ELSE d = c ]_vars

\* the sagittal view during a drag from (10, 20) with the cursor at
\* (32.5, 3): the full extent of the 256 x 256 slice moved by (-22.5, 17)
C30_Witness ==
    /\ ev = "_on_motion" /\ args = <<1, << <<65, 2>>, <<3, 1>> >> >>
    /\ viewer.canvas[1]._pan_start = Some(<< <<10, 1>>, <<20, 1>> >>)
    /\ viewer.canvas[1].ax_xlim = << <<-23, 1>>, <<233, 1>> >>
    /\ viewer.canvas[1].ax_ylim = << <<33, 2>>, <<545, 2>> >>

----------------------------------------------------------------------------
(* Window presets                                                           *)

NextPreset ==
    \/ \E i \in {1, 2} : BrowsePatient(i)
    \/ \E m \in SeqToSet(MODALITY_ORDER) : ModalityChanged(m)
    \/ \E p \in DOMAIN WINDOW_PRESETS : WindowPresetChanged(p)
    \/ ToggleFullscreen
    \/ \E p \in DOMAIN WINDOW_PRESETS : FsPresetChanged(p)

\* length of the explored event sequences
MaxPresetSteps == 4

InitPreset == Constructed /\ budget = MaxPresetSteps

SpecPreset == InitPreset /\ [][NextPreset]_vars

\* C31: selecting a window preset on the main window or on the fullscreen
\* panel sets both contrast sliders of that panel to ten times the table
\* values (Full Range 0-100, Brain 0-40, Soft Tissue 10-50, Bone 50-100,
\* Tumor 5-30) and sets clim to data_min + pct * (data_max - data_min) for
\* both; a name outside the table changes nothing.
C31_PresetApplied ==
    [][ LET Table(p) == CASE p = "Full Range"  -> <<0, 100>>
                          [] p = "Brain"       -> <<0, 40>>
                          [] p = "Soft Tissue" -> <<10, 50>>
                          [] p = "Bone"        -> <<50, 100>>
                          [] p = "Tumor"       -> <<5, 30>>
            Resolved(t) ==
                << 1000 * vw.data_min + 10 * t[1] * (vw.data_max - vw.data_min),
                   1000 * vw.data_min + 10 * t[2] * (vw.data_max - vw.data_min) >>
        IN  /\ ev' = "_on_window_preset_changed" =>
                  LET t == Table(viewer'.window_preset_combo)
                  IN  /\ viewer'.clim_min_slider = 10 * t[1]
                      /\ viewer'.clim_max_slider = 10 * t[2]
                      /\ <<vw'.clim_min, vw'.clim_max>> = Resolved(t)
                      /\ <<vw'.data_min, vw'.data_max>> = <<vw.data_min, vw.data_max>>
            /\ ev' = "_fs_on_preset_changed" =>
                  LET t == Table(Val(vw'.fs_preset_combo))
                  IN  /\ vw'.fs_clim_min_slider = Some(10 * t[1])
                      /\ vw'.fs_clim_max_slider = Some(10 * t[2])
                      /\ <<vw'.clim_min, vw'.clim_max>> = Resolved(t)
                      /\ <<vw'.data_min, vw'.data_max>> = <<vw.data_min, vw.data_max>>
            /\ _on_window_preset_changed(St, "Lung") = St
            /\ _fs_on_preset_changed(St, "Lung") = St ]_vars

\* "Tumor" selected on the fullscreen panel for the volume of range -5..15:
\* sliders (50, 300), clim (-4.0, 1.0)
C31_Witness ==
    /\ ev = "_fs_on_preset_changed" /\ vw.fs_preset_combo = Some("Tumor")
    /\ <<vw.data_min, vw.data_max>> = <<-5, 15>>
    /\ vw.fs_clim_min_slider = Some(50) /\ vw.fs_clim_max_slider = Some(300)
    /\ <<vw.clim_min, vw.clim_max>> = <<-4000, 1000>>

----------------------------------------------------------------------------
(* Click counter of the 3D surface                                          *)

\* C32: after every left-button press on the 3D surface the click counter
\* is 0 or 1.  The press toggles fullscreen iff the counter was 1 before it
\* and it comes less than 300 ms after the previous press, and the counter
\* is then 0; a press 300 ms or more after the previous one, and the first
\* press, set the counter to 1 and toggle nothing; a press within the
\* timeout while the counter is 0 (right after a toggle) sets it to 1
\* without toggling.
C32_ClickCounterProtocol ==
    [][ ev' = "on_left_button_press" =>
          LET first   == presses = <<>>
              within  == ~first /\ args'[1] - presses[Len(presses)] < 300
              toggled == vw'.is_fullscreen # vw.is_fullscreen
          IN  /\ vw._click_count \in {0, 1}
              /\ vw'._click_count \in {0, 1}
              /\ toggled = (vw._click_count = 1 /\ within)
              /\ toggled => vw'._click_count = 0
              /\ ~within => vw'._click_count = 1
              /\ (within /\ vw._click_count = 0) => vw'._click_count = 1
              /\ vw'._last_click_time = args'[1] ]_vars

\* three presses 100 ms apart: the second one entered fullscreen, the third
\* one starts counting again at 1
C32_Witness ==
    /\ ev = "on_left_button_press"
    /\ presses = <<StartTime + 100, StartTime + 200, StartTime + 300>>
    /\ vw.is_fullscreen
    /\ vw._click_count = 1

----------------------------------------------------------------------------
(* Extra render passes                                                      *)

NextPass ==
    \/ \E i \in {1, 2} : BrowsePatient(i)
    \/ OpenSparse
    \/ \E m \in {"bravo", "seg"} : ModalityChanged(m)
    \/ SegAlwaysVisibleChanged
    \/ ToggleFullscreen
    \/ FsSegAlwaysVisibleChanged
    \/ \E m \in {"bravo", "seg"} : FsModalityChanged(m)

\* length of the explored event sequences
MaxPassSteps == 5

InitPass == Constructed /\ budget = MaxPassSteps

SpecPass == InitPass /\ [][NextPass]_vars

\* the modality selected for display and the overlay handed to the renderer
ActiveIsSeg == IsSegName(viewer.current_modality)
OverlayPresent == vw.current_seg_overlay # None

\* the overlay has a positive voxel
OverlayPositive == OverlayPresent /\ Val(vw.current_seg_overlay).max > 0

\* the overlay has a positive voxel among the voxels the scene is built from
OverlayPositiveInScene ==
    /\ OverlayPresent
    /\ IF Size(Val(vw.current_data).shape) > PERFORMANCE_THRESHOLD
       THEN Val(vw.current_seg_overlay).max2 > 0
       ELSE Val(vw.current_seg_overlay).max > 0

\* the handlers whose last step renders the primary surface, and those
\* whose last step renders the fullscreen surface
RendersPrimary ==
    \/ ev \in {"_browse_patient", "_on_modality_changed",
               "_on_seg_always_visible_changed"} /\ vw.current_data # None
    \/ ev = "toggle_fullscreen" /\ ~vw.is_fullscreen /\ vw.current_data # None
RendersFullscreen ==
    \/ ev \in {"_fs_on_seg_always_visible_changed", "_fs_on_modality_changed"}
    \/ ev = "toggle_fullscreen" /\ vw.is_fullscreen /\ vw.current_data # None

\* the statement with "a positive voxel" read over the whole overlay
C33_ExtraPassAccountingWhole ==
    [][ LET Passes == IF ~ActiveIsSeg' /\ OverlayPositive' /\ vw'.seg_always_visible
                      THEN 1 ELSE 0
        IN  /\ (RendersPrimary' \/ (plotter' # plotter /\ vw'.current_data # None))
                 => plotter'.extra = Passes
            /\ (RendersFullscreen' \/ (fs_plotter' # None /\ fs_plotter' # fs_plotter
                                        /\ vw'.current_data # None))
                 => Val(fs_plotter').extra = Passes ]_vars

\* C33: after each completed render of a surface, primary or fullscreen,
\* the surface carries one extra render pass if the active modality is not a
\* segmentation, an overlay is present with a positive voxel among the
\* voxels kept by the subsampling, and always-visible is on; otherwise it
\* carries none.  No surface ever carries more than one, and an overlay
\* without a positive voxel among the kept ones adds neither a mesh nor a
\* pass.
C33_ExtraPassAccounting ==
    [][ LET Passes == IF ~ActiveIsSeg' /\ OverlayPositiveInScene' /\ vw'.seg_always_visible
                      THEN 1 ELSE 0
            Bare(p) == p.extra = 0 /\ p.mesh = None /\ p.seg_grid = None
            NoOverlayShown == ~ActiveIsSeg' /\ OverlayPresent' /\ ~OverlayPositiveInScene'
        IN  /\ (RendersPrimary' \/ (plotter' # plotter /\ vw'.current_data # None))
                 => /\ plotter'.extra = Passes
                    /\ NoOverlayShown => Bare(plotter')
            /\ (RendersFullscreen' \/ (fs_plotter' # None /\ fs_plotter' # fs_plotter
                                        /\ vw'.current_data # None))
                 => /\ Val(fs_plotter').extra = Passes
                    /\ NoOverlayShown => Bare(Val(fs_plotter'))
            /\ plotter'.extra \in {0, 1}
            /\ fs_plotter' # None => Val(fs_plotter').extra \in {0, 1} ]_vars

\* always-visible is on and the labelled voxels of the overlay are all
\* dropped by the subsampling: the fullscreen surface, just re-rendered,
\* has no mesh and no extra pass
C33_Witness ==
    /\ ev = "_fs_on_seg_always_visible_changed"
    /\ vw.seg_always_visible
    /\ ~ActiveIsSeg /\ OverlayPositive /\ ~OverlayPositiveInScene
    /\ Val(fs_plotter).extra = 0 /\ Val(fs_plotter).mesh = None
    /\ Val(fs_plotter).volume # None

----------------------------------------------------------------------------
(* Background brightness and scalar-bar text                                *)

\* the positions the background sliders are dragged to, in percent
BgInputs == {50, 51, 80}

NextBg ==
    \/ BrowsePatient(1)
    \/ \E m \in {"bravo", "seg"} : ModalityChanged(m)
    \/ \E v \in BgInputs : BgSliderMoved(v)
    \/ BgSliderReleased
    \/ ResetView
    \/ ToggleFullscreen
    \/ \E v \in BgInputs : FsBgSliderMoved(v)
    \/ FsBgSliderReleased
    \/ FsSegAlwaysVisibleChanged

\* length of the explored event sequences
MaxBgSteps == 5

InitBg == Constructed /\ budget = MaxBgSteps

SpecBg == InitBg /\ [][NextBg]_vars

\* the scalar bar of scene p, if it has one, is lettered for background bg
TextMatches(p, bg) ==
    p.volume # None => Val(p.volume).text_color = IF bg > 50 THEN "black" ELSE "white"

\* scene p is what a render of surface p with the parameters v gives
FreshPrimary(v, p) == _render(v, p, FALSE).plotter = p
FreshFullscreen(v, fsp) == _fs_render(v, fsp) = fsp

\* C34: with a volume loaded, after every background change (primary
\* slider, fullscreen slider, reset view) the scalar bar of every live
\* surface is lettered for the current background: black iff the background
\* is above 0.5, white otherwise.  A slider change that crosses 0.5
\* re-renders the primary surface and, in fullscreen, the fullscreen surface
\* too; one that does not cross it re-renders neither (only the background
\* of the scenes changes).  A reset that crosses 0.5 re-renders both as well.
C34_TextColourFollowsBackground ==
    [][ vw'.current_data # None =>
          LET crossed == (vw.bg_color > 50) # (vw'.bg_color > 50)
              Repainted(p, q) == q = [p EXCEPT !.background = vw'.bg_color]
          IN  /\ TextMatches(plotter', vw'.bg_color)
              /\ fs_plotter' # None => TextMatches(Val(fs_plotter'), vw'.bg_color)
              /\ (ev' \in {"_on_bg_changed", "_fs_on_bg_changed"} /\ crossed)
                   => /\ FreshPrimary(vw', plotter')
                      /\ vw.is_fullscreen => FreshFullscreen(vw', fs_plotter')
              /\ (ev' \in {"_on_bg_changed", "_fs_on_bg_changed"} /\ ~crossed)
                   => /\ Repainted(plotter, plotter')
                      /\ vw.is_fullscreen
                           => Repainted(Val(fs_plotter), Val(fs_plotter'))
              /\ (ev' = "_on_reset_view" /\ crossed)
                   => /\ FreshPrimary(vw', plotter')
                      /\ vw.is_fullscreen => FreshFullscreen(vw', fs_plotter') ]_vars

\* the fullscreen slider has just been released at 0.51, coming from 0.5 or
\* below: both scalar bars are black
C34_Witness ==
    /\ ev = "_fs_on_bg_changed"
    /\ vw.is_fullscreen /\ vw.bg_color = 51
    /\ plotter.volume # None /\ Val(plotter.volume).text_color = "black"
    /\ Val(fs_plotter).volume # None
    /\ Val(Val(fs_plotter).volume).text_color = "black"
    /\ plotter.background = 51 /\ Val(fs_plotter).background = 51

----------------------------------------------------------------------------
(* Zoom/pan and slice navigation                                            *)

\* the stored zoom/pan bounds of the three 2D views, and the bounds shown
StoredBounds(w) == [k \in 1..3 |-> << w.canvas[k]._xlim, w.canvas[k]._ylim >>]
ShownBounds(w) == [k \in 1..3 |-> << w.canvas[k].ax_xlim, w.canvas[k].ax_ylim >>]

\* C35: a slice-slider move and a single left click on a 2D view (the two
\* ways of changing a slice index) leave the stored zoom/pan bounds of all
\* three views unchanged, and every view shows the same bounds after the
\* redraw as before it.  A scroll-wheel tick and the events of a drag
\* (middle press, motion, release) on one view change no slice index, no
\* slice slider and nothing of the other two views.
C35_ZoomIndependentOfSlice ==
    [][ /\ (\/ ev' = "_on_slider_changed"
            \/ ev' = "_on_click" /\ args'[2] = 1 /\ ~args'[3])
          => /\ StoredBounds(viewer') = StoredBounds(viewer)
             /\ ShownBounds(viewer') = ShownBounds(viewer)
        /\ (\/ ev' \in {"_on_scroll", "_on_motion", "_on_release"}
            \/ ev' = "_on_click" /\ args'[2] = 2)
          => /\ viewer'.slice_indices = viewer.slice_indices
             /\ viewer'.slice_slider = viewer.slice_slider
             /\ \A j \in (1..3) \ {args'[1]} : viewer'.canvas[j] = viewer.canvas[j]
             /\ viewer'.canvas[args'[1]].shown = viewer.canvas[args'[1]].shown ]_vars

\* a left click on the zoomed axial view has moved the sagittal and coronal
\* slices; the sagittal view, zoomed as well, was redrawn with its bounds
C35_Witness ==
    /\ ev = "_on_click" /\ args[1] = 3 /\ args[2] = 1 /\ ~args[3]
    /\ viewer.slice_indices[1] = 10 /\ viewer.slice_indices[2] = 20
    /\ viewer.canvas[3]._xlim # None
    /\ viewer.canvas[1]._xlim # None
    /\ viewer.canvas[1].ax_xlim = Val(viewer.canvas[1]._xlim)
    /\ Val(viewer.canvas[1].shown).slice_idx = 10

----------------------------------------------------------------------------
(* Slice redraws inside a volume swap                                       *)

\* the positions a slice slider is dragged to before a swap
SwapSliceInputs == {0, 63, 255}

NextSwap ==
    \/ \E i \in {1, 2} : BrowsePatient(i)
    \/ \E m \in SeqToSet(MODALITY_ORDER) : ModalityChanged(m)
    \/ \E axis \in 0..2, v \in SwapSliceInputs : SliceSliderMoved(axis, v)
    \/ ToggleFullscreen
    \/ \E m \in SeqToSet(MODALITY_ORDER) : FsModalityChanged(m)
    \/ FsNextPatient

\* length of the explored event sequences
MaxSwapSteps == 4

InitSwap == Constructed /\ budget = MaxSwapSteps

SpecSwap == InitSwap /\ [][NextSwap]_vars

\* _update_all_views inside a slot: each canvas that holds an image is asked
\* for slice idx[axis + 1] of it; the entry logged is <<axis, index, dim of
\* the held image along the axis>>.  r = [sl, idx, held, log]
RedrawAll(r) ==
    LET Call(k) == IF r.held[k] = None THEN <<>>
                   ELSE << <<k - 1, r.idx[k], Val(r.held[k])[k]>> >>
    IN  [r EXCEPT !.log = @ \o Call(1) \o Call(2) \o Call(3)]

\* valueChanged -> _on_slider_changed(axis, value)
SliderSignal(r, axis, value) == RedrawAll([r EXCEPT !.idx[axis + 1] = value])

\* slider.setMaximum(m): a value above m is bounded to it and signalled
SetMaximumSignal(r, axis, m) ==
    LET sl == r.sl[axis + 1]
        nv == Min2(sl.value, m)
        r1 == [r EXCEPT !.sl[axis + 1] = Slider(nv, m)]
    IN  IF nv # sl.value THEN SliderSignal(r1, axis, nv) ELSE r1

\* slider.setValue(v): bounded to the range, signalled on a change
SetValueSignal(r, axis, v) ==
    LET sl == r.sl[axis + 1]
        nv == QSliderValue(v, sl.maximum)
        r1 == [r EXCEPT !.sl[axis + 1].value = nv]
    IN  IF nv # sl.value THEN SliderSignal(r1, axis, nv) ELSE r1

\* _apply_modality_to_2d_views(data) statement by statement, from the
\* sliders, indices and canvases of w: the update_slice calls it makes, in
\* order, with the sliders and indices it ends with
ApplyRedraws(w, data) ==
    LET shape == data.shape
        maxs  == [i \in 1..3 |-> Max2(0, shape[i] - 1)]
        mids  == [i \in 1..3 |-> shape[i] \div 2]
        r0 == [ sl   |-> w.slice_slider,
                idx  |-> w.slice_indices,
                held |-> [k \in 1..3 |->
                            IF w.canvas[k].image_data = None THEN None
                            ELSE Some(Val(w.canvas[k].image_data).shape)],
                log  |-> <<>> ]
        r1 == SetMaximumSignal(SetMaximumSignal(SetMaximumSignal(r0, 0, maxs[1]),
                                                1, maxs[2]), 2, maxs[3])
        r2 == [r1 EXCEPT !.idx = mids]
        r3 == SetValueSignal(SetValueSignal(SetValueSignal(r2, 0, mids[1]),
                                            1, mids[2]), 2, mids[3])
        r4 == [r3 EXCEPT !.held = [k \in 1..3 |-> Some(shape)]]
    IN  RedrawAll(r4)

\* the handlers that swap the volume of the 2D views
SwapHandlers == { "_browse_patient", "_on_modality_changed",
                  "_fs_on_modality_changed", "_fs_next_patient" }

\* C36: every slice a 2D canvas is asked to draw lies inside the image the
\* canvas holds at that moment: 0 <= index <= dim - 1 along the axis of the
\* view.  This covers the redraws made by the slider signals in the middle
\* of _apply_modality_to_2d_views, while the canvases still hold the
\* previous image, and the slice each canvas shows between events.
C36_NoOutOfRangeRender ==
    [][ /\ (ev' \in SwapHandlers /\ viewer'.current_modality \in DOMAIN viewer'.modalities)
          => LET r == ApplyRedraws(viewer, viewer'.modalities[viewer'.current_modality].data)
             IN  /\ r.sl = viewer'.slice_slider
                 /\ r.idx = viewer'.slice_indices
                 /\ \A i \in 1..Len(r.log) :
                        r.log[i][2] >= 0 /\ r.log[i][2] <= r.log[i][3] - 1
        /\ \A k \in 1..3 :
              viewer'.canvas[k].shown # None =>
                 /\ Val(viewer'.canvas[k].shown).slice_idx >= 0
                 /\ Val(viewer'.canvas[k].shown).slice_idx
                       <= Val(viewer'.canvas[k].image_data).shape[k] - 1 ]_vars

\* the part that holds: the stepwise run ends with the sliders and indices of
\* the handler, the slice shown between events is inside the held image, and
\* a swap to a volume no larger than the held one on any axis makes no
\* out-of-range request
SwapRedrawsWhenNotGrowing ==
    [][ /\ (ev' \in SwapHandlers /\ viewer'.current_modality \in DOMAIN viewer'.modalities)
          => LET data == viewer'.modalities[viewer'.current_modality].data
                 r == ApplyRedraws(viewer, data)
             IN  /\ r.sl = viewer'.slice_slider
                 /\ r.idx = viewer'.slice_indices
                 /\ (\A k \in 1..3 : viewer.canvas[k].image_data # None
                        => \A a \in 1..3 :
                              data.shape[a] \div 2
                                 <= Val(viewer.canvas[k].image_data).shape[a] - 1)
                      => \A i \in 1..Len(r.log) :
                            r.log[i][2] >= 0 /\ r.log[i][2] <= r.log[i][3] - 1
        /\ \A k \in 1..3 :
              viewer'.canvas[k].shown # None =>
                 /\ Val(viewer'.canvas[k].shown).slice_idx >= 0
                 /\ Val(viewer'.canvas[k].shown).slice_idx
                       <= Val(viewer'.canvas[k].image_data).shape[k] - 1 ]_vars

----------------------------------------------------------------------------
(* Fullscreen round trip                                                    *)

\* the values held by the controls of the primary panel
PrimaryControls(w) ==
    << w.modality_combo, w.clim_min_slider, w.clim_max_slider, w.window_preset_combo,
       w.colormap_combo, w.opacity_combo, w.shade_checkbox, w.seg_opacity_slider,
       w.seg_always_visible_checkbox, w.bg_slider, w.slice_slider >>

\* entering fullscreen and leaving it again, no fullscreen control touched
RoundTrip(s) == toggle_fullscreen(toggle_fullscreen(s))

\* C37: from every reachable state outside fullscreen, entering fullscreen
\* and exiting again without touching a fullscreen control leaves the render
\* parameters (clim, colormap, opacity preset, shading, overlay opacity and
\* flag, background) and the value of every primary control, both contrast
\* sliders included, as they were.
C37_RoundTripIdentity ==
    ~vw.is_fullscreen =>
        /\ ~RoundTrip(St).vw.is_fullscreen
        /\ SharedParameters(RoundTrip(St).vw) = SharedParameters(vw)
        /\ PrimaryControls(RoundTrip(St).viewer) = PrimaryControls(viewer)

\* the part that holds: the render parameters, the modality and preset
\* selections and the slice sliders come back unchanged
RoundTripKeepsParameters ==
    ~vw.is_fullscreen =>
        /\ ~RoundTrip(St).vw.is_fullscreen
        /\ SharedParameters(RoundTrip(St).vw) = SharedParameters(vw)
        /\ RoundTrip(St).viewer.slice_slider = viewer.slice_slider
        /\ RoundTrip(St).viewer.modality_combo = viewer.modality_combo
        /\ RoundTrip(St).viewer.window_preset_combo = viewer.window_preset_combo

----------------------------------------------------------------------------
(* Fullscreen mode flag and ESC                                             *)

NextEsc ==
    \/ \E i \in 1..Len(PatientDirs) : BrowsePatient(i)
    \/ \E m \in SeqToSet(MODALITY_ORDER) : ModalityChanged(m)
    \/ BgSliderMoved(80)
    \/ BgSliderReleased
    \/ ToggleFullscreen
    \/ KeyPressEscape
    \/ FsKeyPressEscape
    \/ \E m \in SeqToSet(MODALITY_ORDER) : FsModalityChanged(m)
    \/ FsNextPatient

\* length of the explored event sequences
MaxEscSteps == 5

\* the two builds: with the 3D engine __init__ creates the plotter, without
\* it self.plotter stays None
InitEsc ==
    /\ viewer = ViewerInit
    /\ vw = VolumeWidgetInit
    /\ plotter \in {NewPlotter(0), None}
    /\ fs_plotter = None
    /\ ev = "init"
    /\ args = <<>>
    /\ presses = <<>>
    /\ budget = MaxEscSteps

SpecEsc == InitEsc /\ [][NextEsc]_vars

\* the fullscreen window, its surface and the controls VolumeWidget keeps as
\* optional attributes: which of them exist
FullscreenParts(v, fsp) ==
    << v.fullscreen_window, fsp # None, v.fs_patient_label # None,
       v.fs_modality_combo # None, v.fs_clim_min_slider # None,
       v.fs_clim_max_slider # None, v.fs_seg_opacity_slider # None,
       v.fs_bg_slider # None >>

----------------------------------------------------------------------------
(* Active modality after a patient load                                     *)

\* list s is in the preferred order: bravo, seg, t1_gd, t1_pre, flair, then
\* the other names
InPreferredOrder(s) ==
    LET Rank(m) == CASE m = "bravo"  -> 0
                     [] m = "seg"    -> 1
                     [] m = "t1_gd"  -> 2
                     [] m = "t1_pre" -> 3
                     [] m = "flair"  -> 4
                     [] OTHER        -> 5
    IN  \A i, j \in 1..Len(s) :
           i < j => /\ s[i] # s[j]
                    /\ Rank(s[i]) <= Rank(s[j])
                    /\ Rank(s[i]) = Rank(s[j]) => Rank(s[i]) = 5

\* the active modality a successful load of the directory contents "loaded"
\* must end with, "previous" being the one active before it
ExpectedModality(previous, loaded, sorted) ==
    IF previous \in DOMAIN loaded THEN previous ELSE sorted[1]

\* C39: after a successful patient load the modality list holds the loaded
\* modalities in the preferred order (bravo, seg, t1_gd, t1_pre, flair, then
\* others); the active modality is the previously active one if the new
\* patient has it and the first of the list otherwise; the primary combo,
\* the renderer's current modality name and, while fullscreen is open, the
\* selection of the fullscreen modality combo all equal it.
C39_ActiveModalityAfterLoad ==
    [][ (/\ LoadStep
         /\ DOMAIN DirContents(viewer'.patient_list[viewer'.current_patient_idx + 1]) # {})
          => LET loaded == DirContents(viewer'.patient_list[viewer'.current_patient_idx + 1])
                 sorted == viewer'.modality_combo.items
                 active == ExpectedModality(viewer.current_modality, loaded, sorted)
             IN  /\ SeqToSet(sorted) = DOMAIN loaded
                 /\ InPreferredOrder(sorted)
                 /\ vw'.modalities_list = sorted
                 /\ viewer'.current_modality = active
                 /\ viewer'.modality_combo.text = active
                 /\ vw'.current_modality_name = active
                 /\ vw'.is_fullscreen => Val(vw'.fs_modality_combo).text = active ]_vars

\* the part that holds: everything but the fullscreen selection after a load
\* made from the main window while the fullscreen window is open
ActiveModalityAfterLoadOwnPanel ==
    [][ (/\ LoadStep
         /\ DOMAIN DirContents(viewer'.patient_list[viewer'.current_patient_idx + 1]) # {})
          => LET loaded == DirContents(viewer'.patient_list[viewer'.current_patient_idx + 1])
                 sorted == viewer'.modality_combo.items
                 active == ExpectedModality(viewer.current_modality, loaded, sorted)
             IN  /\ SeqToSet(sorted) = DOMAIN loaded
                 /\ InPreferredOrder(sorted)
                 /\ vw'.modalities_list = sorted
                 /\ viewer'.current_modality = active
                 /\ viewer'.modality_combo.text = active
                 /\ vw'.current_modality_name = active
                 /\ ev' \in {"_fs_prev_patient", "_fs_next_patient"}
                      => /\ Val(vw'.fs_modality_combo).text = active
                         /\ Val(vw'.fs_modality_combo).items = sorted
                 /\ (ev' = "toggle_fullscreen" /\ vw'.is_fullscreen /\ vw'.callbacks)
                      => Val(vw'.fs_modality_combo).text = viewer'.current_modality ]_vars

----------------------------------------------------------------------------
(* The primary surface after fullscreen modality switches and navigation    *)

\* the shared volume of renderer v (data, spacing, overlay, data range) is
\* the active modality of the patient held by the main window vr
SharedVolumeOf(vr, v) ==
    /\ vr.current_modality \in DOMAIN vr.modalities
    /\ LET info == vr.modalities[vr.current_modality]
           is_seg == IsSegName(vr.current_modality)
       IN  /\ v.current_data = Some(info.data)
           /\ v.current_spacing = info.spacing
           /\ v.is_segmentation = is_seg
           /\ v.current_seg_overlay =
                 IF "seg" \in DOMAIN vr.modalities /\ ~is_seg
                 THEN Some(vr.modalities["seg"].data) ELSE None
           /\ v.data_min = info.data.min
           /\ v.data_max = info.data.max

\* the three slice canvases hold the active volume of vr
CanvasesHoldActive(vr) ==
    /\ vr.current_modality \in DOMAIN vr.modalities
    /\ \A i \in 1..3 :
          vr.canvas[i].image_data = Some(vr.modalities[vr.current_modality].data)

\* a modality switch or a patient navigation made on the fullscreen panel
FsVolumeStep ==
    \/ ev' = "_fs_on_modality_changed"
    \/ ev' \in {"_fs_prev_patient", "_fs_next_patient"}
         /\ viewer'.current_patient_idx # viewer.current_patient_idx

\* C40: a modality switch or a patient navigation made in fullscreen leaves
\* the shared volume (data, spacing, overlay, data range), the primary
\* modality selection and the three 2D views on the modality selected on the
\* fullscreen panel, of the patient navigated to; the step that exits
\* fullscreen leaves the primary 3D scene rendered from the shared volume,
\* which is the active modality of the current patient.
C40_PrimaryCatchesUpOnExit ==
    [][ /\ FsVolumeStep
          => /\ viewer'.modalities =
                   DirContents(viewer'.patient_list[viewer'.current_patient_idx + 1])
             /\ viewer'.current_modality = Val(vw'.fs_modality_combo).text
             /\ viewer'.modality_combo.text = viewer'.current_modality
             /\ SharedVolumeOf(viewer', vw')
             /\ CanvasesHoldActive(viewer')
        /\ (ExitsFullscreen /\ viewer.modalities # <<>>)
          => /\ ~vw'.is_fullscreen
             /\ SharedVolumeOf(viewer', vw')
             /\ plotter'.dims # None
             /\ FreshPrimary(vw', plotter') ]_vars

\* the part that holds: the same for the steps whose patient loaded and
\* whose fullscreen selection is a modality of the patient in the store
PrimaryCatchesUpWhenLoaded ==
    [][ /\ (/\ FsVolumeStep
            /\ Val(vw'.fs_modality_combo).text \in DOMAIN viewer'.modalities)
          => /\ viewer'.modalities =
                   DirContents(viewer'.patient_list[viewer'.current_patient_idx + 1])
             /\ viewer'.current_modality = Val(vw'.fs_modality_combo).text
             /\ viewer'.modality_combo.text = viewer'.current_modality
             /\ SharedVolumeOf(viewer', vw')
             /\ CanvasesHoldActive(viewer')
        /\ (ExitsFullscreen /\ SharedVolumeOf(viewer, vw))
          => /\ ~vw'.is_fullscreen
             /\ SharedVolumeOf(viewer', vw')
             /\ plotter'.dims # None
             /\ FreshPrimary(vw', plotter') ]_vars

==========================================================================
